---- MODULE Spec2Model ----
(***************************************************************************)
(* A model of ggml.c: the graph executor's spin barrier, the context slot  *)
(* table, the arena allocator, the graph builder and the partition         *)
(* policies of the multi-threaded kernels.                                 *)
(***************************************************************************)
EXTENDS Integers, Naturals, Sequences, FiniteSets, TLC

\* ------------------------------------------------------------------------
\* Bounds of the model
\* ------------------------------------------------------------------------
MaxThreads == 3
MaxGraphNodes == 2
\* the model's int has IntBits bits (the program's has 32)
IntBits == 5
\* the model's float has MantBits bits of mantissa (F32 has 24)
MantBits == 2
\* largest ne00 = ne10 and ne01 of the MUL_MAT operands
MaxK == 4
MaxM == 2
\* threads that call ggml_init / ggml_free, and slots of g_state.contexts
MaxCallers == 3
MaxContexts == 2
\* the model's size_t has SizeBits bits (the program's has 32 or 64)
SizeBits == 8
\* objects created in one context, and dimensions of a created tensor
MaxObjects == 3
MaxDims == 2
\* tensors created before the graph builder's calls
MaxTensors == 4
\* the int of the work-buffer sizes has WorkIntBits bits: it holds a cache
\* line per thread; rows and columns of the MUL_MAT result, rows (ne02) and
\* length (ne10) of the CONV_1D operands
WorkIntBits == 9
MaxWorkRows == 8
MaxWorkCols == 5
MaxConvRows == 2
MaxConvLen == 2

\* the largest params.lbfgs.max_linesearch
MaxLinesearch == 3

\* ------------------------------------------------------------------------
\* Small helpers
\* ------------------------------------------------------------------------
MIN(a, b) == IF a < b THEN a ELSE b

MAX(a, b) == IF a > b THEN a ELSE b

\* ------------------------------------------------------------------------
\* State
\* ------------------------------------------------------------------------
VARIABLES
    mode,       \* which part of the library the behaviour exercises
    \* ggml_graph_compute: the graph and the shared barrier state
    n_threads,  \* cgraph->n_threads
    nodes,      \* cgraph->nodes[]: the op of every node
    n_tasks,    \* node->n_tasks of every node
    n_ready,    \* state_shared.n_ready
    has_work,   \* state_shared.has_work
    stop,       \* state_shared.stop
    mpc,        \* position of the main thread in ggml_graph_compute
    mphase,     \* params.type of the main thread
    mi,         \* loop index i over cgraph->nodes
    mj,         \* loop index j over workers[]
    wpc,        \* position of every worker in ggml_graph_compute_thread
    wnode,      \* workers[j].node (0 is NULL, i is nodes[i])
    wparams,    \* workers[j].params.type
    running,    \* the kernel call every thread is in, <<i, phase>> or <<>>
    ncalls,     \* number of kernel calls that returned, per thread/node/phase
    posts,      \* number of has_work = true stores main made per node
    \* one phase of a multi-threaded kernel: the rows every ith writes
    p_kind,     \* the partition policy of the kernel
    p_n,        \* number of rows (elements) of the destination
    p_nth,      \* params->nth
    p_ran,      \* the ith whose kernel call has returned
    p_cnt,      \* number of writes to every row of the destination
    p_oob,      \* a row outside [0, n) was written
    p_trap,     \* a kernel call trapped on signed overflow
    \* MUL_MAT of an F32 src0 (ne00 x ne01) and an F32 src1 (ne10 x 1)
    mm_ne00,    \* src0->ne[0] = src1->ne[0]
    mm_ne01,    \* src0->ne[1]
    mm_nb00,    \* src0->nb[0]
    mm_nb01,    \* src0->nb[1]
    mm_src0,    \* the elements of src0, by index <<i00, i01>>
    mm_src1,    \* the elements of src1, by index i10
    mm_res,     \* dst->data after ggml_graph_compute, by n_threads
    \* ggml_init / ggml_free and the context slot table
    g_state_barrier, \* the atomic barrier counter
    used,       \* g_state.contexts[i].used
    first_time, \* the static first_time of ggml_init
    cpc,        \* position of every caller in ggml_init / ggml_free
    cop,        \* the function the caller is in
    carg,       \* the ctx argument of ggml_free (0 is not a slot's context)
    ci,         \* loop index i of the caller
    cctx,       \* the local ctx of ggml_init (0 is NULL)
    held,       \* the contexts every caller got from ggml_init and not freed
    csnap,      \* .used of every slot when the caller passed the entry loop
    is_first_call, \* the static is_first_call of ggml_init
    \* ggml_new_tensor_impl and the object list of one context
    mem_size,   \* ctx->mem_size
    objects,    \* the objects from ctx->objects_begin to ctx->objects_end
    n_objects,  \* ctx->n_objects
    a_res,      \* how the last ggml_new_tensor_impl call ended
    a_fits,     \* the last request fitted in the remaining arena space
    a_prev,     \* objects and n_objects before the last call
    \* ggml_build_forward / ggml_build_forward_expand
    tensors,    \* the tensors created so far, in creation order
    cgraph,     \* the struct ggml_cgraph the calls work on
    g_call,     \* the last call made on cgraph
    btensors,   \* the tensors ggml_build_backward created, in creation order
    gb,         \* the graph ggml_build_backward returned
    \* the operator constructors and ggml_build_backward, with shapes
    ad_t,       \* the tensors of the context, in creation order
    ad_n,       \* number of constructor calls made
    ad_call,    \* the last call: its name, arguments, result and outcome
    \* construction and execution of SCALE and ADD nodes, with strides
    k_t,        \* the tensors of the context, in creation order
    k_n,        \* number of constructor calls made
    k_call,     \* the last call: its name, arguments and outcome
    \* ggml_opt and ggml_opt_lbfgs
    o_used,     \* g_state.contexts[i].used of every slot
    o_n_threads, \* gf->n_threads and gb->n_threads of the caller's graphs
    o_x,        \* the values of the parameter tensors
    o_call,     \* the last call: its name, arguments and outcome
    \* the work buffer of ggml_graph_compute
    wb_in,      \* the node: its op, the shapes of its sources, n_threads
    wb_cur,     \* the work size computed for the node, in bytes
    wb_wsize,   \* params.wsize: the bytes of cgraph->work
    wb_res,     \* "none", "ok", or "abort" once an assertion failed
    wb_wr,      \* per thread, the work-buffer elements its kernel calls wrote
    wb_rd,      \* per thread, the work-buffer elements its kernel calls read
    wb_ran,     \* the kernel calls that returned, <<phase, ith>>
    \* one iteration of ggml_opt_lbfgs: the call of linesearch_backtracking
    ls_in,      \* params.lbfgs, xp, gp, d, and fx and step at the call
    ls_st,      \* the locals of the two functions and the parameter tensor
    \* ggml_compute_backward on a node with one source
    bw_in,      \* the op and the values of src0, tensor->grad and src0->grad
    bw_out      \* the value of src0->grad after the call

schedVars == <<n_threads, nodes, n_tasks, n_ready, has_work, stop, mpc, mphase,
               mi, mj, wpc, wnode, wparams, running, ncalls, posts>>

partVars == <<p_kind, p_n, p_nth, p_ran, p_cnt, p_oob, p_trap>>

mmVars == <<mm_ne00, mm_ne01, mm_nb00, mm_nb01, mm_src0, mm_src1, mm_res>>

ctxVars == <<g_state_barrier, used, first_time, cpc, cop, carg, ci, cctx,
             held, csnap, is_first_call>>

arenaVars == <<mem_size, objects, n_objects, a_res, a_fits, a_prev>>

graphVars == <<tensors, cgraph, g_call, btensors, gb>>

adVars == <<ad_t, ad_n, ad_call>>

kernVars == <<k_t, k_n, k_call>>

optVars == <<o_used, o_n_threads, o_x, o_call>>

workVars == <<wb_in, wb_cur, wb_wsize, wb_res, wb_wr, wb_rd, wb_ran>>

lsVars == <<ls_in, ls_st>>

bwVars == <<bw_in, bw_out>>

vars == <<mode, schedVars, partVars, mmVars, ctxVars, arenaVars, graphVars,
          adVars, kernVars, optVars, workVars,
                 lsVars, bwVars>>


IdleSched ==
    /\ n_threads = 1
    /\ nodes = <<>>
    /\ n_tasks = <<>>
    /\ n_ready = 0
    /\ has_work = FALSE
    /\ stop = FALSE
    /\ mpc = "idle"
    /\ mphase = "INIT"
    /\ mi = 1
    /\ mj = 1
    /\ wpc = <<>>
    /\ wnode = <<>>
    /\ wparams = <<>>
    /\ running = <<>>
    /\ ncalls = <<>>
    /\ posts = <<>>

IdleMulMat ==
    /\ mm_ne00 = 0
    /\ mm_ne01 = 0
    /\ mm_nb00 = 0
    /\ mm_nb01 = 0
    /\ mm_src0 = <<>>
    /\ mm_src1 = <<>>
    /\ mm_res = <<>>

IdleCtx ==
    /\ g_state_barrier = 0
    /\ used = <<>>
    /\ first_time = TRUE
    /\ cpc = <<>>
    /\ cop = <<>>
    /\ carg = <<>>
    /\ ci = <<>>
    /\ cctx = <<>>
    /\ held = <<>>
    /\ csnap = <<>>
    /\ is_first_call = TRUE

IdleArena ==
    /\ mem_size = 0
    /\ objects = <<>>
    /\ n_objects = 0
    /\ a_res = "none"
    /\ a_fits = TRUE
    /\ a_prev = <<>>

IdleGraph ==
    /\ tensors = <<>>
    /\ cgraph = <<>>
    /\ g_call = "none"
    /\ btensors = <<>>
    /\ gb = <<>>

IdleAd ==
    /\ ad_t = <<>>
    /\ ad_n = 0
    /\ ad_call = <<>>

IdleKern ==
    /\ k_t = <<>>
    /\ k_n = 0
    /\ k_call = <<>>

IdleOpt ==
    /\ o_used = <<>>
    /\ o_n_threads = 0
    /\ o_x = 0
    /\ o_call = <<>>

IdleWork ==
    /\ wb_in = <<>>
    /\ wb_cur = 0
    /\ wb_wsize = 0
    /\ wb_res = "none"
    /\ wb_wr = <<>>
    /\ wb_rd = <<>>
    /\ wb_ran = {}

IdleLs ==
    /\ ls_in = <<>>
    /\ ls_st = <<>>

IdleBw ==
    /\ bw_in = <<>>
    /\ bw_out = <<>>

\* ------------------------------------------------------------------------
\* C int arithmetic
\* ------------------------------------------------------------------------
INT_MAX == 2^(IntBits - 1) - 1

INT_MIN == -(2^(IntBits - 1))

IntRange == INT_MIN .. INT_MAX

\* the two's complement value a signed overflow wraps to
IntWrap(x) == ((x - INT_MIN) % 2^IntBits) + INT_MIN

IntOverflows(x) == x < INT_MIN \/ x > INT_MAX

\* C division truncates toward zero
CDiv(a, b) == IF a >= 0 THEN a \div b ELSE -((-a) \div b)

\* ------------------------------------------------------------------------
\* Partition policies of the multi-threaded kernels
\* ------------------------------------------------------------------------
PartKinds == {"ADD_contiguous", "ADD_strided", "GELU", "SCALE", "SOFT_MAX",
              "NORM", "MUL_MAT_rows", "MUL_MAT_finalize"}

IdlePart ==
    /\ p_kind = "none"
    /\ p_n = 0
    /\ p_nth = 1
    /\ p_ran = {}
    /\ p_cnt = <<>>
    /\ p_oob = FALSE
    /\ p_trap = FALSE

\* ggml_compute_forward_add_f32, nb10 == sizeof(float):
\* j0 = (n/nth)*ith; j1 = ith == nth - 1 ? n : (n/nth)*(ith + 1)
AddContiguousRows(n, nth, ith) ==
    LET j0 == CDiv(n, nth) * ith
        j1 == IF ith = nth - 1 THEN n ELSE CDiv(n, nth) * (ith + 1)
    IN  {j \in IntRange : j0 <= j /\ j < j1}

\* for (int j = ith; j < n; j += nth): the rows visited before j += nth
\* leaves the range of int
StridedRows(n, nth, ith) ==
    {j \in IntRange : ith <= j /\ j < n /\ (j - ith) % nth = 0}

\* j += nth overflows after the last row below n
StridedOverflows(n, nth, ith) ==
    \E j \in StridedRows(n, nth, ith) : IntOverflows(j + nth)

\* dr = (nr + nth - 1)/nth; ir0 = dr*ith; ir1 = MIN(ir0 + dr, nr)
\* dr = nr/nth loses the remainder rows
ChunkRowsFloor(nr, nth, ith) ==
    LET dr  == CDiv(nr, nth)
        ir0 == IntWrap(dr * ith)
        ir1 == MIN(IntWrap(ir0 + dr), nr)
    IN  {i1 \in IntRange : ir0 <= i1 /\ i1 < ir1}

ChunkRows(nr, nth, ith) ==
    LET dr  == CDiv(IntWrap(IntWrap(nr + nth) - 1), nth)
        ir0 == IntWrap(dr * ith)
        ir1 == MIN(IntWrap(ir0 + dr), nr)
    IN  {i1 \in IntRange : ir0 <= i1 /\ i1 < ir1}

\* one of the int operations of the chunk computation overflows
ChunkOverflows(nr, nth, ith) ==
    LET dr  == CDiv(IntWrap(IntWrap(nr + nth) - 1), nth)
        ir0 == IntWrap(dr * ith)
    IN  \/ IntOverflows(nr + nth)
        \/ IntOverflows(dr * ith)
        \/ IntOverflows(ir0 + dr)

\* FINALIZE of the column-parallel MUL_MAT: dc = (ne + nth - 1)/nth;
\* ic0 = dc*ith; ic1 = MIN(ic0 + dc, ne); ggml_vec_cpy_f32(ic1 - ic0, dst + ic0, ..)
FinalizeCols(ne, nth, ith) ==
    LET dc  == CDiv(IntWrap(IntWrap(ne + nth) - 1), nth)
        ic0 == IntWrap(dc * ith)
        ic1 == MIN(IntWrap(ic0 + dc), ne)
    IN  {ic0 + i : i \in {k \in 0 .. INT_MAX : k < ic1 - ic0}}

\* the rows the kernel call of thread ith writes
SliceOf(kind, n, nth, ith) ==
    CASE kind = "ADD_contiguous" -> AddContiguousRows(n, nth, ith)
      [] kind \in {"ADD_strided", "NORM"} -> StridedRows(n, nth, ith)
      [] kind \in {"GELU", "SCALE", "SOFT_MAX", "MUL_MAT_rows"} ->
             ChunkRows(n, nth, ith)
      [] kind = "MUL_MAT_finalize" -> FinalizeCols(n, nth, ith)

\* the kernel call of thread ith executes a signed overflow
SliceOverflows(kind, n, nth, ith) ==
    CASE kind = "ADD_contiguous" -> FALSE
      [] kind \in {"ADD_strided", "NORM"} -> StridedOverflows(n, nth, ith)
      [] OTHER -> ChunkOverflows(n, nth, ith)

InitPart ==
    /\ mode = "part"
    /\ IdleSched
    /\ IdleMulMat
    /\ IdleCtx
    /\ IdleArena
    /\ IdleGraph
    /\ IdleAd
    /\ IdleKern
    /\ IdleOpt
    /\ IdleWork
    /\ IdleLs
    /\ IdleBw
    /\ p_kind \in PartKinds
    /\ p_n \in 0 .. INT_MAX
    /\ p_nth \in 1 .. MaxThreads
    /\ p_ran = {}
    /\ p_cnt = [i \in 0 .. INT_MAX |-> 0]
    /\ p_oob = FALSE
    /\ p_trap = FALSE

\* the kernel call of thread ith returns: no int operation overflowed
KernelSlice(ith) ==
    /\ ith \in (0 .. (p_nth - 1)) \ p_ran
    /\ ~p_trap
    /\ ~SliceOverflows(p_kind, p_n, p_nth, ith)
    /\ LET rows == SliceOf(p_kind, p_n, p_nth, ith)
       IN  /\ p_cnt' = [i \in 0 .. INT_MAX |->
                           IF i \in rows THEN p_cnt[i] + 1 ELSE p_cnt[i]]
           /\ p_oob' = (p_oob \/ \E i \in rows : i < 0 \/ i >= p_n)
    /\ p_ran' = p_ran \cup {ith}
    /\ UNCHANGED <<p_kind, p_n, p_nth, p_trap>>

\* the kernel call of thread ith overflows an int and the build wraps: a
\* chunk is computed from the wrapped values, a strided loop goes on at a
\* negative row
KernelSliceWrap(ith) ==
    /\ ith \in (0 .. (p_nth - 1)) \ p_ran
    /\ ~p_trap
    /\ SliceOverflows(p_kind, p_n, p_nth, ith)
    /\ LET rows == SliceOf(p_kind, p_n, p_nth, ith)
       IN  /\ p_cnt' = [i \in 0 .. INT_MAX |->
                           IF i \in rows THEN p_cnt[i] + 1 ELSE p_cnt[i]]
           /\ p_oob' = \/ p_oob
                       \/ \E i \in rows : i < 0 \/ i >= p_n
                       \/ p_kind \in {"ADD_strided", "NORM"}
    /\ p_ran' = p_ran \cup {ith}
    /\ UNCHANGED <<p_kind, p_n, p_nth, p_trap>>

\* the kernel call of thread ith overflows an int and the build traps
KernelSliceTrap(ith) ==
    /\ ith \in (0 .. (p_nth - 1)) \ p_ran
    /\ ~p_trap
    /\ SliceOverflows(p_kind, p_n, p_nth, ith)
    /\ p_trap' = TRUE
    /\ UNCHANGED <<p_kind, p_n, p_nth, p_ran, p_cnt, p_oob>>

NextPart ==
    /\ mode = "part"
    /\ UNCHANGED <<mode, schedVars, mmVars, ctxVars, arenaVars,
                 graphVars, adVars, kernVars, optVars, workVars,
                 lsVars, bwVars>>
    /\ \E ith \in 0 .. (MaxThreads - 1) :
           \/ KernelSlice(ith)
           \/ KernelSliceWrap(ith)
           \/ KernelSliceTrap(ith)

SpecPart == InitPart /\ [][NextPart]_vars

\* C5: the rows written by different ith are pairwise disjoint, and once
\* every ith in [0, nth) has run their union is exactly [0, n).
C5_ExclusiveComplete ==
    mode = "part" =>
        /\ ~p_trap
        /\ ~p_oob
        /\ \A i \in 0 .. INT_MAX : p_cnt[i] <= 1
        /\ p_ran = 0 .. (p_nth - 1) =>
               \A i \in 0 .. INT_MAX : (p_cnt[i] = 1) <=> (i < p_n)


\* ------------------------------------------------------------------------
\* F32 arithmetic: round to nearest, ties to even, MantBits bits of mantissa
\* ------------------------------------------------------------------------
RECURSIVE UlpOf(_, _)
UlpOf(x, ulp) == IF x < (2^MantBits) * ulp THEN ulp ELSE UlpOf(x, 2 * ulp)

RoundF32(x) ==
    LET ulp == UlpOf(x, 1)
        q   == x \div ulp
        r   == x % ulp
    IN  IF 2 * r < ulp THEN q * ulp
        ELSE IF 2 * r > ulp THEN (q + 1) * ulp
        ELSE IF q % 2 = 0 THEN q * ulp ELSE (q + 1) * ulp

FAdd(a, b) == RoundF32(a + b)

FMul(a, b) == RoundF32(a * b)

\* ------------------------------------------------------------------------
\* ggml_compute_forward_mul_mat_f32 (no BLAS)
\* ------------------------------------------------------------------------
SizeofFloat == 4

\* the thread counts the graph is executed with
NThreadsTested == {1, 2, 8}

\* the values of the operands' elements
Src0Vals == {1, 2^MantBits}

Src1Vals == {1, 2}

\* ggml_vec_dot_f32: ggml_float sumf = 0.0; sumf += x[i]*y[i]; *s = sumf
RECURSIVE VecDotSum(_, _, _)
VecDotSum(n, x, y) ==
    IF n = 0 THEN 0 ELSE VecDotSum(n - 1, x, y) + FMul(x[n - 1], y[n - 1])

VecDot(n, x, y) == RoundF32(VecDotSum(n, x, y))

\* nb01 >= nb00: parallelize by src0 rows using ggml_vec_dot_f32; the
\* element dst[i01] is written by the thread whose row range holds i01
MulMatRows(nth) ==
    LET nr == mm_ne01
        written == UNION {ChunkRows(nr, nth, ith) : ith \in 0 .. (nth - 1)}
    IN  [i01 \in 0 .. (mm_ne01 - 1) |->
            IF i01 \in written
            THEN VecDot(mm_ne00,
                        [i00 \in 0 .. (mm_ne00 - 1) |-> mm_src0[<<i00, i01>>]],
                        mm_src1)
            ELSE 0]

\* ggml_vec_mad_f32 over the columns ic .. ic1 - 1 of one thread, for the
\* element i0 of its work data: y[i0] += src0[ic][i0] * src1[ic]
RECURSIVE MadColumns(_, _, _, _)
MadColumns(i0, ic, ic1, y) ==
    IF ic >= ic1 THEN y
    ELSE MadColumns(i0, ic + 1, ic1,
                    FAdd(y, FMul(mm_src0[<<ic, i0>>], mm_src1[ic])))

\* COMPUTE of the column-parallel path: the work data of thread ith after
\* INIT zeroed it; ic0 = dc*ith, ic1 = MIN(ic0 + dc, nc)
WorkData(nth, ith) ==
    LET nc  == mm_ne00
        dc  == CDiv(nc + nth - 1, nth)
        ic0 == dc * ith
        ic1 == MIN(ic0 + dc, nc)
    IN  [i0 \in 0 .. (mm_ne01 - 1) |-> MadColumns(i0, ic0, ic1, 0)]

\* FINALIZE: ggml_vec_cpy_f32 of thread 0's work data, then ggml_vec_acc_f32
\* of the work data of the threads k = 1 .. nth - 1, in this order
RECURSIVE AccWorkData(_, _, _, _)
AccWorkData(i0, k, nth, y) ==
    IF k >= nth THEN y
    ELSE AccWorkData(i0, k + 1, nth, FAdd(y, WorkData(nth, k)[i0]))

MulMatColumns(nth) ==
    LET ne == mm_ne01
        merged == UNION {FinalizeCols(ne, nth, ith) : ith \in 0 .. (nth - 1)}
    IN  [i0 \in 0 .. (mm_ne01 - 1) |->
            IF i0 \in merged
            THEN AccWorkData(i0, 1, nth, WorkData(nth, 0)[i0])
            ELSE 0]

\* the kernel chooses the path by the strides of src0
MulMatF32(nth) ==
    IF mm_nb01 >= mm_nb00 THEN MulMatRows(nth) ELSE MulMatColumns(nth)

InitMulMat ==
    /\ mode = "mulmat"
    /\ IdleSched
    /\ IdlePart
    /\ IdleCtx
    /\ IdleArena
    /\ IdleGraph
    /\ IdleAd
    /\ IdleKern
    /\ IdleOpt
    /\ IdleWork
    /\ IdleLs
    /\ IdleBw
    /\ mm_ne00 \in 1 .. MaxK
    /\ mm_ne01 \in 1 .. MaxM
    /\ \E transposed \in BOOLEAN :
           IF transposed
           THEN mm_nb00 = SizeofFloat * mm_ne01 /\ mm_nb01 = SizeofFloat
           ELSE mm_nb00 = SizeofFloat /\ mm_nb01 = SizeofFloat * mm_ne00
    /\ \E base \in [0 .. (mm_ne00 - 1) -> Src0Vals] :
           mm_src0 = [e \in (0 .. (mm_ne00 - 1)) \X (0 .. (mm_ne01 - 1)) |->
                         base[(e[1] + e[2]) % mm_ne00]]
    /\ \E v \in Src1Vals : mm_src1 = [i10 \in 0 .. (mm_ne00 - 1) |-> v]
    /\ mm_res = <<>>

\* ggml_graph_compute of the one-node graph with n_threads = nth, the
\* thread counts taken in ascending order
GraphComputeMulMat(nth) ==
    /\ nth \notin DOMAIN mm_res
    /\ \A n \in NThreadsTested : n < nth => n \in DOMAIN mm_res
    /\ mm_res' = [n \in DOMAIN mm_res \cup {nth} |->
                     IF n = nth THEN MulMatF32(nth) ELSE mm_res[n]]
    /\ UNCHANGED <<mm_ne00, mm_ne01, mm_nb00, mm_nb01, mm_src0, mm_src1>>

NextMulMat ==
    /\ mode = "mulmat"
    /\ UNCHANGED <<mode, schedVars, partVars, ctxVars, arenaVars,
                 graphVars, adVars, kernVars, optVars, workVars,
                 lsVars, bwVars>>
    /\ \E nth \in NThreadsTested : GraphComputeMulMat(nth)

SpecMulMat == InitMulMat /\ [][NextMulMat]_vars

\* C4 as stated: the same graph gives identical results for every
\* n_threads in {1, 2, 8}, also for MUL_MAT on a transposed src0.
C4_Identical ==
    \A a \in DOMAIN mm_res : \A b \in DOMAIN mm_res : mm_res[a] = mm_res[b]

\* C4 amended: MUL_MAT gives identical results for every n_threads in
\* {1, 2, 8} when src0 is not transposed (row-parallel path, every output
\* element reduced by one thread).
C4_RowParallelIdentical ==
    mm_nb01 >= mm_nb00 =>
        \A a \in DOMAIN mm_res : \A b \in DOMAIN mm_res : mm_res[a] = mm_res[b]

\* a row-major src0 with two rows was multiplied with 1, 2 and 8 threads
C4_Witness ==
    /\ mode = "mulmat"
    /\ mm_nb01 >= mm_nb00
    /\ mm_ne01 = 2
    /\ mm_ne00 >= 2
    /\ DOMAIN mm_res = NThreadsTested


\* ------------------------------------------------------------------------
\* ggml_init / ggml_free
\* ------------------------------------------------------------------------
GGML_MAX_CONTEXTS == MaxContexts

Callers == 1 .. MaxCallers

Slots == 1 .. GGML_MAX_CONTEXTS

\* while (processing > 0): another call is in progress
BarrierBusyLax(processing) == processing > 1

BarrierBusy(processing) == processing > 0

\* if (!g_state.contexts[i].used)
SlotFreeAlways(u) == TRUE

SlotFree(u) == ~u

\* the positions between the entry loop and the final fetch_sub
InCritical == {"first", "find", "fill", "null", "match", "release"}

NoSnapshot == [i \in Slots |-> FALSE]

InitCtx ==
    /\ mode = "ctx"
    /\ IdleSched
    /\ IdlePart
    /\ IdleMulMat
    /\ IdleArena
    /\ IdleGraph
    /\ IdleAd
    /\ IdleKern
    /\ IdleOpt
    /\ IdleWork
    /\ IdleLs
    /\ IdleBw
    /\ is_first_call = TRUE
    /\ g_state_barrier = 0
    /\ used = [i \in Slots |-> FALSE]
    /\ first_time = TRUE
    /\ cpc = [t \in Callers |-> "idle"]
    /\ cop = [t \in Callers |-> "none"]
    /\ carg = [t \in Callers |-> 0]
    /\ ci = [t \in Callers |-> 1]
    /\ cctx = [t \in Callers |-> 0]
    /\ held = [t \in Callers |-> {}]
    /\ csnap = [t \in Callers |-> NoSnapshot]

\* the call returns: its parameters and locals go out of scope
Return(t) ==
    /\ cpc' = [cpc EXCEPT ![t] = "idle"]
    /\ cop' = [cop EXCEPT ![t] = "none"]
    /\ carg' = [carg EXCEPT ![t] = 0]
    /\ ci' = [ci EXCEPT ![t] = 1]
    /\ cctx' = [cctx EXCEPT ![t] = 0]
    /\ csnap' = [csnap EXCEPT ![t] = NoSnapshot]

\* a thread calls ggml_init(params)
CallInit(t) ==
    /\ cpc[t] = "idle"
    /\ cpc' = [cpc EXCEPT ![t] = "enter"]
    /\ cop' = [cop EXCEPT ![t] = "init"]
    /\ carg' = [carg EXCEPT ![t] = 0]
    /\ UNCHANGED <<is_first_call, g_state_barrier, used, first_time, ci, cctx,
                   held, csnap>>

\* a thread calls ggml_free(ctx) with a context it holds, or with a pointer
\* that is no slot's context
CallFree(t) ==
    /\ cpc[t] = "idle"
    /\ \E c \in held[t] \cup {0} :
           /\ carg' = [carg EXCEPT ![t] = c]
           /\ held' = [held EXCEPT ![t] = @ \ {c}]
    /\ cpc' = [cpc EXCEPT ![t] = "enter"]
    /\ cop' = [cop EXCEPT ![t] = "free"]
    /\ UNCHANGED <<is_first_call, g_state_barrier, used, first_time, ci, cctx,
                   csnap>>

\* int processing = atomic_fetch_add(&g_state_barrier, 1), first time and
\* after sched_yield(); while (processing > 0) ...
BarrierEnter(t) ==
    /\ cpc[t] = "enter"
    /\ g_state_barrier' = g_state_barrier + 1
    /\ IF BarrierBusy(g_state_barrier)
       THEN /\ cpc' = [cpc EXCEPT ![t] = "backoff"]
            /\ UNCHANGED <<csnap, ci, cctx>>
       ELSE /\ cpc' = [cpc EXCEPT ![t] = IF cop[t] = "init" THEN "first"
                                                              ELSE "match"]
            /\ csnap' = [csnap EXCEPT ![t] = used]
            /\ ci' = [ci EXCEPT ![t] = 1]
            /\ cctx' = [cctx EXCEPT ![t] = 0]
    /\ UNCHANGED <<is_first_call, used, first_time, cop, carg, held>>

\* atomic_fetch_sub(&g_state_barrier, 1); sched_yield();
BarrierBackoff(t) ==
    /\ cpc[t] = "backoff"
    /\ g_state_barrier' = g_state_barrier - 1
    /\ cpc' = [cpc EXCEPT ![t] = "enter"]
    /\ UNCHANGED <<is_first_call, used, first_time, cop, carg, ci, cctx, held,
                   csnap>>

\* ggml_init: if (is_first_call) the GELU and EXP tables are filled;
\* if (first_time) every slot's used = false; first_time = false
InitFirstTime(t) ==
    /\ cpc[t] = "first"
    /\ is_first_call' = FALSE
    /\ IF first_time
       THEN /\ used' = [i \in Slots |-> FALSE]
            /\ first_time' = FALSE
       ELSE UNCHANGED <<used, first_time>>
    /\ cpc' = [cpc EXCEPT ![t] = "find"]
    /\ UNCHANGED <<g_state_barrier, cop, carg, ci, cctx, held, csnap>>

\* ggml_init: one iteration of the loop that finds a non-used context
InitFind(t) ==
    /\ cpc[t] = "find"
    /\ IF ci[t] > GGML_MAX_CONTEXTS
       THEN /\ cpc' = [cpc EXCEPT ![t] = "null"]
            /\ UNCHANGED <<used, ci, cctx>>
       ELSE IF SlotFree(used[ci[t]])
            THEN /\ used' = [used EXCEPT ![ci[t]] = TRUE]
                 /\ cctx' = [cctx EXCEPT ![t] = ci[t]]
                 /\ cpc' = [cpc EXCEPT ![t] = "fill"]
                 /\ ci' = ci
            ELSE /\ ci' = [ci EXCEPT ![t] = @ + 1]
                 /\ UNCHANGED <<used, cctx, cpc>>
    /\ UNCHANGED <<is_first_call, g_state_barrier, first_time, cop, carg, held,
                   csnap>>

\* ggml_init: *ctx = (struct ggml_context) {...}
InitFill(t) ==
    /\ cpc[t] = "fill"
    /\ cpc' = [cpc EXCEPT ![t] = "release"]
    /\ UNCHANGED <<is_first_call, g_state_barrier, used, first_time, cop, carg,
                   ci, cctx, held, csnap>>

\* ggml_init: if (ctx == NULL) { atomic_fetch_sub(&g_state_barrier, 1);
\* return NULL; }
InitReturnNull(t) ==
    /\ cpc[t] = "null"
    /\ g_state_barrier' = g_state_barrier - 1
    /\ Return(t)
    /\ UNCHANGED <<is_first_call, used, first_time, held>>

\* ggml_free: one iteration of the loop that looks for ctx
FreeMatch(t) ==
    /\ cpc[t] = "match"
    /\ IF ci[t] > GGML_MAX_CONTEXTS
       THEN /\ cpc' = [cpc EXCEPT ![t] = "release"]
            /\ UNCHANGED <<used, ci>>
       ELSE IF ci[t] = carg[t]
            THEN /\ used' = [used EXCEPT ![ci[t]] = FALSE]
                 /\ cpc' = [cpc EXCEPT ![t] = "release"]
                 /\ ci' = ci
            ELSE /\ ci' = [ci EXCEPT ![t] = @ + 1]
                 /\ UNCHANGED <<used, cpc>>
    /\ UNCHANGED <<is_first_call, g_state_barrier, first_time, cop, carg, cctx,
                   held, csnap>>

\* atomic_fetch_sub(&g_state_barrier, 1); return ctx; (ggml_init) or
\* return; (ggml_free)
BarrierRelease(t) ==
    /\ cpc[t] = "release"
    /\ g_state_barrier' = g_state_barrier - 1
    /\ IF cop[t] = "init"
       THEN held' = [held EXCEPT ![t] = @ \cup {cctx[t]}]
       ELSE UNCHANGED held
    /\ Return(t)
    /\ UNCHANGED <<is_first_call, used, first_time>>

NextCtx ==
    /\ mode = "ctx"
    /\ UNCHANGED <<mode, schedVars, partVars, mmVars, arenaVars,
                 graphVars, adVars, kernVars, optVars, workVars,
                 lsVars, bwVars>>
    /\ \E t \in Callers :
           \/ CallInit(t)
           \/ CallFree(t)
           \/ BarrierEnter(t)
           \/ BarrierBackoff(t)
           \/ InitFirstTime(t)
           \/ InitFind(t)
           \/ InitFill(t)
           \/ InitReturnNull(t)
           \/ FreeMatch(t)
           \/ BarrierRelease(t)

SpecCtx == InitCtx /\ [][NextCtx]_vars

\* a step of thread t inside a call of ggml_init or ggml_free
CallerStep(t) ==
    \/ BarrierEnter(t)
    \/ BarrierBackoff(t)
    \/ InitFirstTime(t)
    \/ InitFind(t)
    \/ InitFill(t)
    \/ InitReturnNull(t)
    \/ FreeMatch(t)
    \/ BarrierRelease(t)

\* every thread that is inside a call is scheduled again and again; a thread
\* is free to make no further call
FairCtx ==
    /\ SpecCtx
    /\ \A t \in Callers :
           WF_vars(CallerStep(t) /\ UNCHANGED <<mode, schedVars, partVars,
                       mmVars, arenaVars, graphVars, adVars, kernVars,
                       optVars, workVars,
                 lsVars, bwVars>>)

\* C6: at most one thread at a time is past the g_state_barrier entry loop,
\* and g_state_barrier is 0 whenever no call is in progress.
C6_Serialized ==
    mode = "ctx" =>
        /\ \A t \in Callers : \A u \in Callers :
               (cpc[t] \in InCritical /\ cpc[u] \in InCritical) => t = u
        /\ (\A t \in Callers : cpc[t] = "idle") => g_state_barrier = 0

\* one caller is inside while two others retry the entry loop
C6_Witness ==
    /\ mode = "ctx"
    /\ \E t \in Callers : cpc[t] \in {"find", "match"}
    /\ Cardinality({t \in Callers : cpc[t] = "backoff"}) >= 2
    /\ g_state_barrier = 3

\* C7: ggml_init returns NULL exactly when every slot is used, and then no
\* slot changes and the barrier counter is released; otherwise it marks
\* exactly one previously unused slot as used, so two live contexts never
\* share a slot; ggml_free of a live context leaves its slot unused.
C7_SlotTable ==
    mode = "ctx" =>
        /\ \A t \in Callers :
               cpc[t] = "null" =>
                   /\ \A i \in Slots : csnap[t][i]
                   /\ used = csnap[t]
        /\ \A t \in Callers :
               (cop[t] = "init" /\ cpc[t] \in {"fill", "release"}) =>
                   /\ cctx[t] \in Slots
                   /\ ~csnap[t][cctx[t]]
                   /\ used = [csnap[t] EXCEPT ![cctx[t]] = TRUE]
                   /\ \A u \in Callers : cctx[t] \notin held[u]
        /\ g_state_barrier =
               Cardinality({t \in Callers : cpc[t] \in InCritical \cup {"backoff"}})
        /\ \A t \in Callers : \A u \in Callers :
               t /= u => held[t] \cap held[u] = {}
        /\ \A t \in Callers :
               (cop[t] = "free" /\ cpc[t] = "release" /\ carg[t] \in Slots) =>
                   ~used[carg[t]]

\* a ggml_init finds every slot used while other callers hold the contexts
C7_Witness ==
    /\ mode = "ctx"
    /\ \E t \in Callers :
           /\ cpc[t] = "null"
           /\ held[t] = {}
           /\ UNION {held[u] : u \in Callers} = Slots

\* ------------------------------------------------------------------------
\* ggml_new_tensor_impl / ggml_used_mem
\* ------------------------------------------------------------------------
\* size_t arithmetic is modulo 2^SizeBits
SizeWrap(x) == x % (2 ^ SizeBits)

\* the build with 4-byte pointers: three 4-byte members and 8 bytes of
\* padding in struct ggml_object
GGML_MEM_ALIGN == 4
GGML_OBJECT_SIZE == 5 * GGML_MEM_ALIGN

\* sizeof(struct ggml_tensor), a multiple of GGML_MEM_ALIGN
SizeofTensor == 3 * GGML_MEM_ALIGN

Types == {"I8", "I16", "I32", "F16", "F32"}
GGML_TYPE_SIZE == [I8 |-> 1, I16 |-> 2, I32 |-> 4, F16 |-> 2, F32 |-> 4]

\* the ne[i] and params.mem_size the model draws
NeVals == {1, 2, 2 ^ (SizeBits \div 2), 2 ^ (SizeBits - 1)}
NeSeqs == UNION {[1 .. d -> NeVals] : d \in 1 .. MaxDims}
MemSizes == {2 ^ (SizeBits - 1), 2 ^ SizeBits - 1}

\* for (i < n_dims) size_needed *= ne[i];
RECURSIVE MulDims(_, _, _)
MulDims(size_needed, ne, i) ==
    IF i > Len(ne)
    THEN size_needed
    ELSE MulDims(SizeWrap(size_needed * ne[i]), ne, i + 1)

\* ((size_needed + GGML_MEM_ALIGN - 1)/GGML_MEM_ALIGN)*GGML_MEM_ALIGN
AlignUp(size_needed) ==
    SizeWrap((SizeWrap(size_needed + GGML_MEM_ALIGN - 1) \div GGML_MEM_ALIGN)
             * GGML_MEM_ALIGN)

\* size_needed of ggml_new_tensor_impl, as size_t computes it
SizeNeeded(type, ne, hasData) ==
    SizeWrap((IF hasData
              THEN 0
              ELSE AlignUp(MulDims(GGML_TYPE_SIZE[type], ne, 1)))
             + SizeofTensor)

\* the same quantities in unbounded integers: the bytes the tensor occupies
RECURSIVE ExactMulDims(_, _, _)
ExactMulDims(size_needed, ne, i) ==
    IF i > Len(ne)
    THEN size_needed
    ELSE ExactMulDims(size_needed * ne[i], ne, i + 1)

ExactSizeNeeded(type, ne, hasData) ==
    (IF hasData
     THEN 0
     ELSE ((ExactMulDims(GGML_TYPE_SIZE[type], ne, 1) + GGML_MEM_ALIGN - 1)
           \div GGML_MEM_ALIGN) * GGML_MEM_ALIGN)
    + SizeofTensor

\* cur_end = cur_offset + cur_size of ctx->objects_end, 0 in an empty context
CurEnd(objs) ==
    IF objs = <<>>
    THEN 0
    ELSE SizeWrap(objs[Len(objs)].offset + objs[Len(objs)].size)

\* the byte after the last object's memory
ExactEnd(objs) ==
    IF objs = <<>>
    THEN 0
    ELSE objs[Len(objs)].offset + objs[Len(objs)].size

\* ggml_used_mem: ctx->objects_end->offset + ctx->objects_end->size
ggml_used_mem(objs) ==
    SizeWrap(objs[Len(objs)].offset + objs[Len(objs)].size)

\* if (cur_end + size_needed + GGML_OBJECT_SIZE > ctx->mem_size)
NoSpace(cur_end, size_needed) ==
    SizeWrap(SizeWrap(cur_end + size_needed) + GGML_OBJECT_SIZE) > mem_size

InitArena ==
    /\ mode = "arena"
    /\ IdleSched
    /\ IdlePart
    /\ IdleMulMat
    /\ IdleCtx
    /\ IdleGraph
    /\ IdleAd
    /\ IdleKern
    /\ IdleOpt
    /\ IdleWork
    /\ IdleLs
    /\ IdleBw
    /\ mem_size \in MemSizes
    /\ objects = <<>>
    /\ n_objects = 0
    /\ a_res = "none"
    /\ a_fits = TRUE
    /\ a_prev = [objects |-> <<>>, n_objects |-> 0]

\* bookkeeping of one call: the state it started from and whether the
\* tensor's bytes fit between the last object and the end of the buffer
Request(type, ne, hasData) ==
    /\ a_prev' = [objects |-> objects, n_objects |-> n_objects]
    /\ a_fits' = (ExactEnd(objects) + ExactSizeNeeded(type, ne, hasData)
                  + GGML_OBJECT_SIZE <= mem_size)

\* ggml_new_tensor_impl when the space check passes: the new object is
\* written at mem_buffer + cur_end and linked at the end of the list
NewTensor(type, ne, hasData) ==
    /\ ~NoSpace(CurEnd(objects), SizeNeeded(type, ne, hasData))
    /\ objects' = Append(objects,
                         [offset |-> SizeWrap(CurEnd(objects)
                                              + GGML_OBJECT_SIZE),
                          size |-> SizeNeeded(type, ne, hasData)])
    /\ n_objects' = n_objects + 1
    /\ a_res' = "tensor"
    /\ Request(type, ne, hasData)
    /\ UNCHANGED mem_size

\* ggml_new_tensor_impl when the space check fails: GGML_PRINT;
\* assert(false), which ends the process unless NDEBUG is defined;
\* return NULL
NewTensorNoSpace(type, ne, hasData) ==
    /\ NoSpace(CurEnd(objects), SizeNeeded(type, ne, hasData))
    /\ a_res' \in {"abort", "null"}
    /\ Request(type, ne, hasData)
    /\ UNCHANGED <<mem_size, objects, n_objects>>

NextArena ==
    /\ mode = "arena"
    /\ UNCHANGED <<mode, schedVars, partVars, mmVars, ctxVars,
                 graphVars, adVars, kernVars, optVars, workVars,
                 lsVars, bwVars>>
    /\ a_res /= "abort"
    /\ n_objects < MaxObjects
    /\ \E type \in Types : \E ne \in NeSeqs : \E hasData \in BOOLEAN :
           \/ NewTensor(type, ne, hasData)
           \/ NewTensorNoSpace(type, ne, hasData)

SpecArena == InitArena /\ [][NextArena]_vars

\* C8: within a context every new object starts after the previous one,
\* object offsets strictly increase along the list, no two objects overlap,
\* every object ends at or before mem_size, and ggml_used_mem never
\* decreases.
C8_ArenaMonotone ==
    mode = "arena" =>
        /\ \A k \in 1 .. (Len(objects) - 1) :
               /\ objects[k + 1].offset > objects[k].offset
               /\ objects[k + 1].offset - GGML_OBJECT_SIZE
                      >= objects[k].offset + objects[k].size
        /\ \A k \in 1 .. Len(objects) :
               objects[k].offset + objects[k].size <= mem_size
        /\ (a_res = "tensor" /\ a_prev.n_objects > 0) =>
               ggml_used_mem(objects) >= ggml_used_mem(a_prev.objects)

\* C9: a tensor creation whose bytes do not fit in the remaining arena space
\* fails, and leaves the object list, objects_end, n_objects and the used
\* memory as they were.
C9_NoPartialTensor ==
    (mode = "arena" /\ a_res /= "none" /\ ~a_fits) =>
        /\ a_res \in {"abort", "null"}
        /\ objects = a_prev.objects
        /\ n_objects = a_prev.n_objects

\* ------------------------------------------------------------------------
\* ggml_visit_parents / ggml_build_forward / ggml_build_forward_expand
\* ------------------------------------------------------------------------
\* a tensor is its position in tensors; 0 is NULL
GGML_MAX_OPT == 4

\* capacity of nodes[], grads[] and leafs[]: small enough for the model's
\* tensors to fill nodes[], large enough for a backward graph
GGML_MAX_NODES == MaxTensors - 1

\* the tensor ggml_dup_tensor creates as the grad of tensor t
GradOf(t) == MaxTensors + t

NoOpt == [i \in 1 .. GGML_MAX_OPT |-> 0]

\* *result = (struct ggml_tensor) {...} of ggml_new_tensor_impl
NewTensorFields ==
    [op |-> "NONE", is_param |-> FALSE, grad |-> 0, src0 |-> 0, src1 |-> 0,
     opt |-> NoOpt]

\* struct ggml_cgraph result = { 0, 0, ..., { NULL }, { NULL }, { NULL } }
EmptyGraph ==
    [n_nodes |-> 0,
     n_leafs |-> 0,
     nodes |-> [i \in 1 .. GGML_MAX_NODES |-> 0],
     grads |-> [i \in 1 .. GGML_MAX_NODES |-> 0],
     leafs |-> [i \in 1 .. GGML_MAX_NODES |-> 0],
     res |-> "ok"]

\* the tensors of the context: those the constructors made, the grads
\* ggml_dup_tensor made for them, and those ggml_build_backward made.  m.t
\* and m.b are tensors and btensors at some point of a call.
Heap(m) ==
    [id \in 1 .. (2 * MaxTensors + Len(m.b)) |->
        IF id <= Len(m.t) THEN m.t[id]
        ELSE IF id <= 2 * MaxTensors THEN NewTensorFields
        ELSE m.b[id - 2 * MaxTensors]]

\* the two loops of ggml_visit_parents that check if already visited
AlreadyVisited(cg, node) ==
    \/ \E i \in 1 .. cg.n_nodes : cg.nodes[i] = node
    \/ \E i \in 1 .. cg.n_leafs : cg.leafs[i] = node

\* if (node->op == GGML_OP_NONE && node->grad == NULL): a leaf node, not
\* part of the gradient graph
IsLeafByOp(fields) == fields.op = "NONE"

IsLeaf(fields) == fields.op = "NONE" /\ fields.grad = 0

\* the tail of ggml_visit_parents: the tensor goes to leafs[] or to nodes[].
\* With assert compiled in a full array ends the process; with NDEBUG the
\* stores go past the array: nodes[GGML_MAX_NODES] is grads[0],
\* grads[GGML_MAX_NODES] is leafs[0], and leafs[GGML_MAX_NODES] lies in the
\* members that follow leafs[].
Store(heap, cg, node, ndebug) ==
    IF IsLeaf(heap[node])
    THEN IF cg.n_leafs < GGML_MAX_NODES
         THEN [cg EXCEPT !.leafs[cg.n_leafs + 1] = node,
                         !.n_leafs = @ + 1]
         ELSE IF ndebug
              THEN [cg EXCEPT !.n_leafs = @ + 1, !.res = "overflow"]
              ELSE [cg EXCEPT !.res = "abort"]
    ELSE IF cg.n_nodes < GGML_MAX_NODES
         THEN [cg EXCEPT !.nodes[cg.n_nodes + 1] = node,
                         !.grads[cg.n_nodes + 1] = heap[node].grad,
                         !.n_nodes = @ + 1]
         ELSE IF ndebug
              THEN [cg EXCEPT !.grads[1] = node,
                              !.leafs[1] = heap[node].grad,
                              !.n_nodes = @ + 1,
                              !.res = "overflow"]
              ELSE [cg EXCEPT !.res = "abort"]

\* ggml_visit_parents(cgraph, node) at recursion depth `depth`.  The model
\* follows a call up to its first failed assert or out-of-bounds store, and
\* reports a recursion deeper than the number of tensors, which never
\* returns, as "diverged".
RECURSIVE ggml_visit_parents(_, _, _, _, _)
RECURSIVE VisitOpt(_, _, _, _, _, _)
ggml_visit_parents(heap, cg, node, depth, ndebug) ==
    IF cg.res /= "ok"
    THEN cg
    ELSE IF depth > Len(heap)
    THEN [cg EXCEPT !.res = "diverged"]
    ELSE IF AlreadyVisited(cg, node)
    THEN cg
    ELSE LET c0 == IF heap[node].src0 /= 0
                   THEN ggml_visit_parents(heap, cg, heap[node].src0,
                                           depth + 1, ndebug)
                   ELSE cg
             c1 == IF heap[node].src1 /= 0
                   THEN ggml_visit_parents(heap, c0, heap[node].src1,
                                           depth + 1, ndebug)
                   ELSE c0
             c2 == VisitOpt(heap, c1, node, 1, depth + 1, ndebug)
         IN  IF c2.res /= "ok" THEN c2 ELSE Store(heap, c2, node, ndebug)

\* for (i < GGML_MAX_OPT) if (node->opt[i]) ggml_visit_parents(..opt[i])
VisitOpt(heap, cg, node, i, depth, ndebug) ==
    IF i > GGML_MAX_OPT
    THEN cg
    ELSE VisitOpt(heap,
                  IF heap[node].opt[i] /= 0
                  THEN ggml_visit_parents(heap, cg, heap[node].opt[i],
                                          depth, ndebug)
                  ELSE cg,
                  node, i + 1, depth, ndebug)

\* ggml_build_forward_impl(cgraph, tensor, expand)
ggml_build_forward_impl(heap, cg, tensor, expand, ndebug) ==
    LET start == IF expand
                 THEN [cg EXCEPT !.res = "ok"]
                 ELSE [cg EXCEPT !.n_nodes = 0, !.n_leafs = 0, !.res = "ok"]
        n0 == start.n_nodes
        done == ggml_visit_parents(heap, start, tensor, 1, ndebug)
    IN  IF /\ done.res = "ok"
           /\ done.n_nodes - n0 > 0
           /\ done.nodes[done.n_nodes] /= tensor
           /\ ~ndebug
        THEN [done EXCEPT !.res = "abort"]
        ELSE done

\* ggml_add_impl(ctx, a, b, inplace) as ggml_compute_backward calls it: the
\* result is the next tensor of the context, followed by its grad when
\* is_node
AddImpl(m, a, b, inplace) ==
    LET is_node == ~inplace /\ (Heap(m)[a].grad /= 0 \/ Heap(m)[b].grad /= 0)
        result == 2 * MaxTensors + Len(m.b) + 1
        fields == [NewTensorFields EXCEPT
                       !.op = "ADD",
                       !.grad = IF is_node THEN result + 1 ELSE 0,
                       !.src0 = a,
                       !.src1 = b]
    IN  [m EXCEPT !.b = IF is_node
                        THEN m.b \o <<fields, NewTensorFields>>
                        ELSE Append(m.b, fields)]

\* src->grad = ggml_add_impl(ctx, src->grad, tensor->grad, inplace)
Accumulate(m, src, tensor, inplace) ==
    IF m.t[src].grad = 0
    THEN m
    ELSE [AddImpl(m, m.t[src].grad, m.t[tensor].grad, inplace) EXCEPT
              !.t[src].grad = 2 * MaxTensors + Len(m.b) + 1]

\* ggml_compute_backward(ctx, tensor, inplace) for the ops of the model's
\* graphs
ggml_compute_backward(m, tensor, inplace) ==
    CASE m.t[tensor].op = "ADD" ->
             Accumulate(Accumulate(m, m.t[tensor].src0, tensor, inplace),
                        m.t[tensor].src1, tensor, inplace)
      [] m.t[tensor].op = "FLASH_ATTN" -> [m EXCEPT !.res = "abort"]
      [] m.t[tensor].op = "NONE" -> m

\* ggml_build_backward, first loop: if (keep) every node with a grad gets
\* a new one, node->grad = ggml_dup_tensor(ctx, node); gf->grads[i] = it
RECURSIVE Detach(_, _)
Detach(s, i) ==
    IF i > s.gf.n_nodes
    THEN s
    ELSE IF s.m.t[s.gf.nodes[i]].grad = 0
    THEN Detach(s, i + 1)
    ELSE Detach([s EXCEPT
                     !.m.b = Append(@, NewTensorFields),
                     !.m.t[s.gf.nodes[i]].grad =
                         2 * MaxTensors + Len(s.m.b) + 1,
                     !.gf.grads[i] = 2 * MaxTensors + Len(s.m.b) + 1],
                i + 1)

\* second loop, i = n_nodes - 1 .. 0: if (node->grad)
\* ggml_compute_backward(ctx, node, keep)
RECURSIVE BackwardNodes(_, _, _, _)
BackwardNodes(m, gf, i, keep) ==
    IF i < 1 \/ m.res /= "ok"
    THEN m
    ELSE BackwardNodes(IF m.t[gf.nodes[i]].grad /= 0
                       THEN ggml_compute_backward(m, gf.nodes[i], keep)
                       ELSE m,
                       gf, i - 1, keep)

\* third loop, i = n_nodes - 1 .. 0: if (node->is_param)
\* ggml_build_forward_impl(&result, node->grad, true)
RECURSIVE ExpandParams(_, _, _, _, _)
ExpandParams(m, gf, result, i, ndebug) ==
    IF i < 1 \/ result.res /= "ok"
    THEN result
    ELSE ExpandParams(m, gf,
                      IF m.t[gf.nodes[i]].is_param
                      THEN ggml_build_forward_impl(Heap(m), result,
                                                   m.t[gf.nodes[i]].grad,
                                                   TRUE, ndebug)
                      ELSE result,
                      i - 1, ndebug)

\* ggml_build_backward if it expanded *gf itself instead of the copy
\* result = *gf
ggml_build_backward_in_place(m, gf, keep, ndebug) ==
    LET s1 == IF keep THEN Detach([m |-> m, gf |-> gf], 1)
                      ELSE [m |-> m, gf |-> gf]
        m2 == BackwardNodes(s1.m, s1.gf, s1.gf.n_nodes, keep)
        result == IF m2.res /= "ok"
                  THEN [gf EXCEPT !.res = "abort"]
                  ELSE ExpandParams(m2, s1.gf, s1.gf, s1.gf.n_nodes, ndebug)
    IN  [m |-> m2, gf |-> [result EXCEPT !.res = "ok"], result |-> result]

\* ggml_build_backward(ctx, gf, keep): the memory, gf and the returned graph
\* after the call; assert(gf->n_nodes > 0) ends the process unless NDEBUG
ggml_build_backward(m, gf, keep, ndebug) ==
    IF gf.n_nodes = 0 /\ ~ndebug
    THEN [m |-> m, gf |-> gf, result |-> [gf EXCEPT !.res = "abort"]]
    ELSE LET s1 == IF keep THEN Detach([m |-> m, gf |-> gf], 1)
                           ELSE [m |-> m, gf |-> gf]
             m2 == BackwardNodes(s1.m, s1.gf, s1.gf.n_nodes, keep)
         IN  [m |-> m2,
              gf |-> s1.gf,
              result |-> IF m2.res /= "ok"
                         THEN [gf EXCEPT !.res = "abort"]
                         ELSE ExpandParams(m2, s1.gf, gf, s1.gf.n_nodes,
                                           ndebug)]

InitGraph ==
    /\ mode = "graph"
    /\ IdleSched
    /\ IdlePart
    /\ IdleMulMat
    /\ IdleCtx
    /\ IdleArena
    /\ IdleAd
    /\ IdleKern
    /\ IdleOpt
    /\ IdleWork
    /\ IdleLs
    /\ IdleBw
    /\ tensors = <<>>
    /\ cgraph = EmptyGraph
    /\ g_call = "none"
    /\ btensors = <<>>
    /\ gb = EmptyGraph

\* ggml_new_tensor and its variants: a tensor with op NONE and no sources.
\* The builder reads only the tensors reachable from its argument and changes
\* none of them, so creating every tensor before the first builder call
\* loses no graph.
NewLeaf ==
    /\ Len(tensors) < MaxTensors
    /\ g_call = "none"
    /\ tensors' = Append(tensors, NewTensorFields)
    /\ g_call' = "none"
    /\ UNCHANGED <<cgraph, btensors, gb>>

\* ggml_new_tensor followed by ggml_set_param(ctx, tensor): is_param = true
\* and grad = ggml_dup_tensor(ctx, tensor)
NewParam ==
    /\ Len(tensors) < MaxTensors
    /\ g_call = "none"
    /\ tensors' = Append(tensors,
                         [NewTensorFields EXCEPT
                              !.is_param = TRUE,
                              !.grad = GradOf(Len(tensors) + 1)])
    /\ g_call' = "none"
    /\ UNCHANGED <<cgraph, btensors, gb>>

\* ggml_add(ctx, a, b)
Add(a, b) ==
    /\ Len(tensors) < MaxTensors
    /\ g_call = "none"
    /\ LET is_node == tensors[a].grad /= 0 \/ tensors[b].grad /= 0
           result == Len(tensors) + 1
       IN  tensors' = Append(tensors,
                             [NewTensorFields EXCEPT
                                  !.op = "ADD",
                                  !.grad = IF is_node THEN GradOf(result)
                                                      ELSE 0,
                                  !.src0 = a,
                                  !.src1 = b])
    /\ g_call' = "none"
    /\ UNCHANGED <<cgraph, btensors, gb>>

\* ggml_flash_attn(ctx, q, k, v, masked): GGML_ASSERT(false) ends the
\* process when a source has a grad; opt[1] is a new I32 tensor
FlashAttn(q, k, v) ==
    /\ Len(tensors) + 2 <= MaxTensors
    /\ g_call = "none"
    /\ tensors[q].grad = 0 /\ tensors[k].grad = 0 /\ tensors[v].grad = 0
    /\ LET result == Len(tensors) + 1
       IN  tensors' = tensors \o
                      <<[NewTensorFields EXCEPT
                             !.op = "FLASH_ATTN",
                             !.src0 = q,
                             !.src1 = k,
                             !.opt = [NoOpt EXCEPT ![1] = v,
                                                   ![2] = result + 1]],
                        NewTensorFields>>
    /\ g_call' = "none"
    /\ UNCHANGED <<cgraph, btensors, gb>>

\* cgraph = ggml_build_forward(tensor): a fresh graph, so the call made
\* after other builder calls gives the graph it gives as the first one
BuildForward(t, ndebug) ==
    /\ g_call = "none"
    /\ cgraph' = ggml_build_forward_impl(Heap([t |-> tensors, b |-> btensors]),
                                         EmptyGraph, t, FALSE, ndebug)
    /\ g_call' = "forward"
    /\ UNCHANGED <<tensors, btensors, gb>>

\* ggml_build_forward_expand(&cgraph, tensor)
BuildForwardExpand(t, ndebug) ==
    /\ cgraph' = ggml_build_forward_impl(Heap([t |-> tensors, b |-> btensors]),
                                         cgraph, t, TRUE, ndebug)
    /\ g_call' = "expand"
    /\ UNCHANGED <<tensors, btensors, gb>>

\* gb = ggml_build_backward(ctx, &cgraph, keep), called on the graph that
\* ggml_build_forward returned
BuildBackward(keep, ndebug) ==
    /\ g_call = "forward"
    /\ LET r == ggml_build_backward([t |-> tensors, b |-> btensors,
                                     res |-> "ok"],
                                    cgraph, keep, ndebug)
       IN  /\ tensors' = r.m.t
           /\ btensors' = r.m.b
           /\ cgraph' = r.gf
           /\ gb' = r.result
    /\ g_call' = "backward"

NextGraph ==
    /\ mode = "graph"
    /\ UNCHANGED <<mode, schedVars, partVars, mmVars, ctxVars, arenaVars,
                 adVars, kernVars, optVars, workVars,
                 lsVars, bwVars>>
    /\ cgraph.res = "ok"
    /\ g_call /= "backward"
    /\ \/ NewLeaf
       \/ NewParam
       \/ \E a \in 1 .. Len(tensors) : \E b \in 1 .. Len(tensors) : Add(a, b)
       \/ \E q \in 1 .. Len(tensors) : \E k \in 1 .. Len(tensors) :
              \E v \in 1 .. Len(tensors) : FlashAttn(q, k, v)
       \/ \E t \in 1 .. Len(tensors) : \E ndebug \in BOOLEAN :
              BuildForward(t, ndebug)
       \/ \E t \in 1 .. Len(tensors) : \E ndebug \in BOOLEAN :
              BuildForwardExpand(t, ndebug)
       \/ \E keep \in BOOLEAN : \E ndebug \in BOOLEAN :
              BuildBackward(keep, ndebug)

SpecGraph == InitGraph /\ [][NextGraph]_vars

\* the valid entries of nodes[] and leafs[], in order
Entries(cg) ==
    [i \in 1 .. (cg.n_nodes + cg.n_leafs) |->
        IF i <= cg.n_nodes THEN cg.nodes[i] ELSE cg.leafs[i - cg.n_nodes]]

Tensors == Heap([t |-> tensors, b |-> btensors])

\* src0, src1 and the non-null opt[k] of a tensor
SourcesOf(node) ==
    ({Tensors[node].src0, Tensors[node].src1}
         \cup {Tensors[node].opt[k] : k \in 1 .. GGML_MAX_OPT}) \ {0}

\* the entries that lie inside nodes[] and inside leafs[]
NodesIn(cg) == 1 .. MIN(cg.n_nodes, GGML_MAX_NODES)
LeafsIn(cg) == 1 .. MIN(cg.n_leafs, GGML_MAX_NODES)

\* every entry of nodes[] has its sources in leafs[] or earlier in nodes[]
SourcesFirst(cg) ==
    \A i \in NodesIn(cg) :
        \A src \in SourcesOf(cg.nodes[i]) :
            \/ \E j \in 1 .. (i - 1) : cg.nodes[j] = src
            \/ \E j \in LeafsIn(cg) : cg.leafs[j] = src

\* a call returned the graph: no assert ended the process
Returned(cg) == cg.res \in {"ok", "overflow"}

\* C11: in every graph that ggml_build_forward, ggml_build_forward_expand
\* or ggml_build_backward returns, every entry of nodes[] has all its
\* sources in leafs[] or at a smaller index of nodes[].
C11_SourcesFirst ==
    mode = "graph" =>
        /\ Returned(cgraph) => SourcesFirst(cgraph)
        /\ (g_call = "backward" /\ Returned(gb)) => SourcesFirst(gb)

\* C12 as stated: every tensor with op NONE that a built graph holds,
\* parameters included, is in leafs[] and not in nodes[].
C12_OpNoneInLeafs ==
    mode = "graph" =>
        \A i \in NodesIn(cgraph) : Tensors[cgraph.nodes[i]].op /= "NONE"

\* C12 amended: leafs[] holds the tensors with op NONE and no grad (the
\* constants); every other tensor of the graph, and so every parameter,
\* which has op NONE and a grad, is in nodes[].
C12_LeafsAreConstants ==
    mode = "graph" =>
        \A cg \in {cgraph, gb} :
            /\ \A j \in LeafsIn(cg) :
                   cg.leafs[j] /= 0 =>
                       /\ Tensors[cg.leafs[j]].op = "NONE"
                       /\ Tensors[cg.leafs[j]].grad = 0
            /\ \A i \in NodesIn(cg) :
                   /\ \/ Tensors[cg.nodes[i]].op /= "NONE"
                      \/ Tensors[cg.nodes[i]].grad /= 0
                   /\ Tensors[cg.nodes[i]].is_param =>
                          \A j \in LeafsIn(cg) :
                              cg.leafs[j] /= cg.nodes[i]

\* ggml_build_forward returned a graph with a parameter in nodes[] and a
\* constant in leafs[]
C12_Witness ==
    /\ mode = "graph"
    /\ g_call = "forward"
    /\ cgraph.res = "ok"
    /\ \E i \in NodesIn(cgraph) :
           /\ Tensors[cgraph.nodes[i]].op = "NONE"
           /\ Tensors[cgraph.nodes[i]].is_param
    /\ \E j \in LeafsIn(cgraph) : Tensors[cgraph.leafs[j]].op = "NONE"

\* C16: ggml_build_backward leaves n_nodes, n_leafs, nodes[] and leafs[] of
\* gf as they were; the graph it returns starts with the nodes of gf,
\* result.nodes[i] = gf.nodes[i] for i < gf.n_nodes, and the nodes appended
\* after them are tensors of the gradient computation.
C16_BackwardKeepsForward ==
    [][(mode = "graph" /\ g_call' = "backward" /\ Returned(gb')) =>
           /\ cgraph'.n_nodes = cgraph.n_nodes
           /\ cgraph'.n_leafs = cgraph.n_leafs
           /\ cgraph'.nodes = cgraph.nodes
           /\ cgraph'.leafs = cgraph.leafs
           /\ gb'.n_nodes >= cgraph.n_nodes
           /\ \A i \in 1 .. cgraph.n_nodes : gb'.nodes[i] = cgraph.nodes[i]
           /\ \A i \in NodesIn(gb') :
                  i > cgraph.n_nodes => gb'.nodes[i] > MaxTensors]_vars

\* ggml_build_backward returned a graph with gradient nodes after the two
\* or more nodes of gf
C16_Witness ==
    /\ mode = "graph"
    /\ g_call = "backward"
    /\ gb.res = "ok"
    /\ cgraph.n_nodes >= 2
    /\ gb.n_nodes > cgraph.n_nodes
    /\ gb.nodes[gb.n_nodes] > 2 * MaxTensors

\* ------------------------------------------------------------------------
\* The operator constructors, ggml_set_param and ggml_build_backward, with
\* the shapes of the tensors
\* ------------------------------------------------------------------------
GGML_MAX_DIMS == 4

\* constructor calls of one behaviour
MaxAdOps == 3

\* n_dims and ne[0 .. n_dims-1] of the tensors ggml_new_tensor is asked for
AdShapes == {<<1>>, <<2>>, <<2, 2>>}

UnaryOps == {"SUM", "MEAN", "SGN", "GELU", "NORM", "TRANSPOSE", "SOFT_MAX"}

BinaryOps == {"ADD", "MUL_MAT", "REPEAT"}

\* ggml_new_tensor_impl: ne[i] = ne[i] for i < n_dims, the rest stays 1
Trunc(n_dims, ne) ==
    [i \in 1 .. GGML_MAX_DIMS |->
        IF i <= n_dims /\ i <= Len(ne) THEN ne[i] ELSE 1]

\* *result = (struct ggml_tensor) {...} of ggml_new_tensor_impl, with shape
ggml_new_tensor(n_dims, ne) ==
    [n_dims |-> n_dims, ne |-> Trunc(n_dims, ne), op |-> "NONE",
     is_param |-> FALSE, grad |-> 0, src0 |-> 0, src1 |-> 0]

\* ggml_dup_tensor(ctx, src): ggml_new_tensor_impl(.., src->n_dims, src->ne)
ggml_dup_tensor(src) == ggml_new_tensor(src.n_dims, src.ne)

\* ggml_view_tensor(ctx, src): the same, on src->data
ggml_view_tensor(src) == ggml_new_tensor(src.n_dims, src.ne)

ggml_are_same_shape(t0, t1) ==
    \A i \in 1 .. GGML_MAX_DIMS : t0.ne[i] = t1.ne[i]

ggml_can_repeat(t0, t1) ==
    \A i \in 1 .. GGML_MAX_DIMS : t1.ne[i] % t0.ne[i] = 0

ggml_can_mul_mat(t0, t1) ==
    /\ t0.ne[1] = t1.ne[1]
    /\ t0.ne[3] = t1.ne[3]
    /\ t0.ne[4] = t1.ne[4]

\* assert(cond): ends the process unless the build defines NDEBUG
Require(m, cond) ==
    IF cond \/ m.ndebug THEN m ELSE [m EXCEPT !.res = "abort"]

\* GGML_ASSERT(cond): ends the process in every build
RequireAlways(m, cond) ==
    IF cond THEN m ELSE [m EXCEPT !.res = "abort"]

\* what a constructor of an ended process returns
Failed(m) == [m |-> m, id |-> 0]

\* the tail of every constructor: result->op = op; result->grad = is_node ?
\* ggml_dup_tensor(ctx, result) : NULL; result->src0 = ..; result->src1 = ..
NewOp(m, result, op, src0, src1, is_node) ==
    IF m.res /= "ok"
    THEN Failed(m)
    ELSE LET id == Len(m.t) + 1
             fields == [result EXCEPT !.op = op, !.src0 = src0,
                                      !.src1 = src1,
                                      !.grad = IF is_node THEN id + 1 ELSE 0]
         IN  [m |-> [m EXCEPT !.t = IF is_node
                                    THEN @ \o <<fields,
                                                ggml_dup_tensor(fields)>>
                                    ELSE Append(@, fields)],
              id |-> id]

\* ggml_add_impl(ctx, a, b, inplace)
ggml_add_impl(m, a, b, inplace) ==
    IF m.res /= "ok"
    THEN Failed(m)
    ELSE NewOp(Require(m, ggml_are_same_shape(m.t[a], m.t[b])),
               IF inplace THEN ggml_view_tensor(m.t[a])
                          ELSE ggml_dup_tensor(m.t[a]),
               "ADD", a, b,
               ~inplace /\ (m.t[a].grad /= 0 \/ m.t[b].grad /= 0))

\* ggml_mul_impl with is_node set whenever an operand has a grad, in-place
\* or not
MulImplNodeInPlace(m, a, b, inplace) ==
    IF m.res /= "ok"
    THEN Failed(m)
    ELSE LET is_node == m.t[a].grad /= 0 \/ m.t[b].grad /= 0
             m1 == Require(m, ggml_are_same_shape(m.t[a], m.t[b]))
             m2 == IF inplace THEN Require(m1, is_node = FALSE) ELSE m1
         IN  NewOp(m2,
                   IF inplace THEN ggml_view_tensor(m.t[a])
                              ELSE ggml_dup_tensor(m.t[a]),
                   "MUL", a, b, is_node)

\* ggml_mul_impl(ctx, a, b, inplace): is_node is set only if !inplace, and
\* if (inplace) assert(is_node == false)
ggml_mul_impl(m, a, b, inplace) ==
    IF m.res /= "ok"
    THEN Failed(m)
    ELSE LET is_node == ~inplace /\ (m.t[a].grad /= 0 \/ m.t[b].grad /= 0)
             m1 == Require(m, ggml_are_same_shape(m.t[a], m.t[b]))
             m2 == IF inplace THEN Require(m1, is_node = FALSE) ELSE m1
         IN  NewOp(m2,
                   IF inplace THEN ggml_view_tensor(m.t[a])
                              ELSE ggml_dup_tensor(m.t[a]),
                   "MUL", a, b, is_node)

\* ggml_div_impl(ctx, a, b, inplace): the same with GGML_OP_DIV
ggml_div_impl(m, a, b, inplace) ==
    IF m.res /= "ok"
    THEN Failed(m)
    ELSE LET is_node == ~inplace /\ (m.t[a].grad /= 0 \/ m.t[b].grad /= 0)
             m1 == Require(m, ggml_are_same_shape(m.t[a], m.t[b]))
             m2 == IF inplace THEN Require(m1, is_node = FALSE) ELSE m1
         IN  NewOp(m2,
                   IF inplace THEN ggml_view_tensor(m.t[a])
                              ELSE ggml_dup_tensor(m.t[a]),
                   "DIV", a, b, is_node)

\* ggml_sum(ctx, a): result = ggml_new_tensor_1d(ctx, a->type, 1)
ggml_sum(m, a) ==
    IF m.res /= "ok"
    THEN Failed(m)
    ELSE NewOp(m, ggml_new_tensor(1, <<1>>), "SUM", a, 0, m.t[a].grad /= 0)

\* ggml_mean(ctx, a): ne = { 1, a->ne[1], a->ne[2], a->ne[3] }
ggml_mean(m, a) ==
    IF m.res /= "ok"
    THEN Failed(m)
    ELSE NewOp(Require(m, m.t[a].grad = 0),
               ggml_new_tensor(m.t[a].n_dims, [m.t[a].ne EXCEPT ![1] = 1]),
               "MEAN", a, 0, m.t[a].grad /= 0)

\* ggml_repeat(ctx, a, b) returns a itself for a same-shape b when a has no
\* grad, else a new tensor of b's shape
ggml_repeat_always_a(m, a, b) ==
    IF m.res /= "ok"
    THEN Failed(m)
    ELSE LET m1 == Require(m, ggml_can_repeat(m.t[a], m.t[b]))
         IN  IF m1.res /= "ok"
             THEN Failed(m1)
             ELSE IF ggml_are_same_shape(m.t[a], m.t[b])
             THEN [m |-> m1, id |-> a]
             ELSE NewOp(m1, ggml_new_tensor(m.t[b].n_dims, m.t[b].ne),
                        "REPEAT", a, 0, m.t[a].grad /= 0)

ggml_repeat(m, a, b) ==
    IF m.res /= "ok"
    THEN Failed(m)
    ELSE LET m1 == Require(m, ggml_can_repeat(m.t[a], m.t[b]))
             is_node == m.t[a].grad /= 0
         IN  IF m1.res /= "ok"
             THEN Failed(m1)
             ELSE IF ggml_are_same_shape(m.t[a], m.t[b]) /\ ~is_node
             THEN [m |-> m1, id |-> a]
             ELSE NewOp(m1, ggml_new_tensor(m.t[b].n_dims, m.t[b].ne),
                        "REPEAT", a, 0, is_node)

\* ggml_sgn(ctx, a) and ggml_gelu(ctx, a): result = ggml_dup_tensor(ctx, a)
ggml_sgn(m, a) ==
    IF m.res /= "ok"
    THEN Failed(m)
    ELSE NewOp(m, ggml_dup_tensor(m.t[a]), "SGN", a, 0, m.t[a].grad /= 0)

ggml_gelu(m, a) ==
    IF m.res /= "ok"
    THEN Failed(m)
    ELSE NewOp(m, ggml_dup_tensor(m.t[a]), "GELU", a, 0, m.t[a].grad /= 0)

\* ggml_norm(ctx, a): if (a->grad) assert(false)
ggml_norm(m, a) ==
    IF m.res /= "ok"
    THEN Failed(m)
    ELSE NewOp(Require(m, m.t[a].grad = 0), ggml_dup_tensor(m.t[a]),
               "NORM", a, 0, m.t[a].grad /= 0)

\* ggml_mul_mat(ctx, a, b): ne = { a->ne[1], b->ne[1], a->ne[2], b->ne[3] }
\* and n_dims = MIN(a->n_dims, b->n_dims)
ggml_mul_mat(m, a, b) ==
    IF m.res /= "ok"
    THEN Failed(m)
    ELSE NewOp(Require(m, ggml_can_mul_mat(m.t[a], m.t[b])),
               ggml_new_tensor(MIN(m.t[a].n_dims, m.t[b].n_dims),
                               <<m.t[a].ne[2], m.t[b].ne[2], m.t[a].ne[3],
                                 m.t[b].ne[4]>>),
               "MUL_MAT", a, b, m.t[a].grad /= 0 \/ m.t[b].grad /= 0)

\* ggml_transpose(ctx, a): a view of a with ne[0] and ne[1] swapped; n_dims
\* stays a->n_dims
ggml_transpose(m, a) ==
    IF m.res /= "ok"
    THEN Failed(m)
    ELSE LET view == ggml_view_tensor(m.t[a])
         IN  NewOp(Require(m, m.t[a].grad = 0),
                   [view EXCEPT !.ne[1] = view.ne[2], !.ne[2] = view.ne[1]],
                   "TRANSPOSE", a, 0, m.t[a].grad /= 0)

\* ggml_soft_max(ctx, a): if (a->grad) assert(false); a view of a
ggml_soft_max(m, a) ==
    IF m.res /= "ok"
    THEN Failed(m)
    ELSE NewOp(Require(m, m.t[a].grad = 0), ggml_view_tensor(m.t[a]),
               "SOFT_MAX", a, 0, m.t[a].grad /= 0)

\* ggml_set_param(ctx, tensor)
ggml_set_param(m, tensor) ==
    LET m1 == Require(m, m.t[tensor].grad = 0)
    IN  IF m1.res /= "ok"
        THEN m1
        ELSE [m1 EXCEPT !.t = Append([@ EXCEPT ![tensor].is_param = TRUE,
                                               ![tensor].grad = Len(m.t) + 1],
                                     ggml_dup_tensor(m.t[tensor]))]

\* src->grad = r, the tensor a constructor returned
SetGrad(r, src) ==
    IF r.m.res /= "ok" THEN r.m ELSE [r.m EXCEPT !.t[src].grad = r.id]

\* how the switch of ggml_compute_backward treats an op that has no
\* backward rule: assert(false), GGML_ASSERT(false), or a rule ("rule")
BackwardKind(op) ==
    CASE op \in {"MEAN", "GELU", "NORM"} -> "assert"
      [] op \in {"SCALE", "CPY", "RESHAPE", "VIEW", "PERMUTE", "TRANSPOSE",
                 "GET_ROWS", "DIAG_MASK_INF", "SOFT_MAX", "ROPE",
                 "CONV_1D_1S", "CONV_1D_2S", "FLASH_ATTN", "FLASH_FF",
                 "COUNT"} -> "GGML_ASSERT"
      [] OTHER -> "rule"

\* ggml_compute_backward(ctx, tensor, inplace), for the ops of UnaryOps and
\* BinaryOps
ad_compute_backward(m, tensor, inplace) ==
    LET op == m.t[tensor].op
        src0 == m.t[tensor].src0
        src1 == m.t[tensor].src1
    IN  CASE BackwardKind(op) = "assert" -> Require(m, FALSE)
          [] BackwardKind(op) = "GGML_ASSERT" -> RequireAlways(m, FALSE)
          [] op = "ADD" ->
                 LET m1 == IF m.t[src0].grad /= 0
                           THEN SetGrad(ggml_add_impl(m, m.t[src0].grad,
                                                      m.t[tensor].grad,
                                                      inplace), src0)
                           ELSE m
                 IN  IF m1.res = "ok" /\ m1.t[src1].grad /= 0
                     THEN SetGrad(ggml_add_impl(m1, m1.t[src1].grad,
                                                m1.t[tensor].grad, inplace),
                                  src1)
                     ELSE m1
          [] op = "SUM" ->
                 IF m.t[src0].grad /= 0
                 THEN LET r == ggml_repeat(m, m.t[tensor].grad,
                                           m.t[src0].grad)
                      IN  SetGrad(ggml_add_impl(r.m, m.t[src0].grad, r.id,
                                                inplace), src0)
                 ELSE m
          [] op = "REPEAT" ->
                 IF m.t[src0].grad /= 0
                 THEN LET r == ggml_sum(m, m.t[tensor].grad)
                      IN  SetGrad(ggml_add_impl(r.m, m.t[src0].grad, r.id,
                                                inplace), src0)
                 ELSE m
          [] op = "MUL_MAT" ->
                 LET m1 == IF m.t[src0].grad /= 0 THEN Require(m, FALSE)
                                                  ELSE m
                 IN  IF m1.res = "ok" /\ m1.t[src1].grad /= 0
                     THEN LET r1 == ggml_transpose(m1, src0)
                              r2 == ggml_mul_mat(r1.m, r1.id,
                                                 m1.t[tensor].grad)
                          IN  SetGrad(ggml_add_impl(r2.m, m1.t[src1].grad,
                                                    r2.id, inplace), src1)
                     ELSE m1
          [] OTHER -> m

\* ggml_visit_parents on a graph that fits nodes[] and leafs[]: the tensors
\* reachable from node, sources first; g.nodes and g.leafs are the arrays
RECURSIVE AdVisit(_, _, _)
AdVisit(t, g, node) ==
    IF \/ \E i \in 1 .. Len(g.nodes) : g.nodes[i] = node
       \/ \E i \in 1 .. Len(g.leafs) : g.leafs[i] = node
    THEN g
    ELSE LET g0 == IF t[node].src0 /= 0 THEN AdVisit(t, g, t[node].src0)
                                        ELSE g
             g1 == IF t[node].src1 /= 0 THEN AdVisit(t, g0, t[node].src1)
                                        ELSE g0
         IN  IF IsLeaf(t[node])
             THEN [g1 EXCEPT !.leafs = Append(@, node)]
             ELSE [g1 EXCEPT !.nodes = Append(@, node)]

\* ggml_build_forward(f).nodes
AdForward(t, f) == AdVisit(t, [nodes |-> <<>>, leafs |-> <<>>], f).nodes

\* ggml_build_backward, first loop: if (keep) node->grad =
\* ggml_dup_tensor(ctx, node) for every node that has a grad
RECURSIVE AdDetach(_, _, _)
AdDetach(m, gf, i) ==
    IF i > Len(gf)
    THEN m
    ELSE AdDetach(IF m.t[gf[i]].grad /= 0
                  THEN [m EXCEPT !.t = Append([@ EXCEPT ![gf[i]].grad =
                                                            Len(m.t) + 1],
                                              ggml_dup_tensor(m.t[gf[i]]))]
                  ELSE m,
                  gf, i + 1)

\* second loop, i = n_nodes - 1 .. 0: if (node->grad)
\* ggml_compute_backward(ctx, node, keep)
RECURSIVE AdBackwardNodes(_, _, _, _)
AdBackwardNodes(m, gf, i, keep) ==
    IF i < 1 \/ m.res /= "ok"
    THEN m
    ELSE AdBackwardNodes(IF m.t[gf[i]].grad /= 0
                         THEN ad_compute_backward(m, gf[i], keep)
                         ELSE m,
                         gf, i - 1, keep)

\* ggml_build_backward(ctx, gf, keep) on gf = ggml_build_forward(f): the
\* tensors of the context after the call.  The third loop of the function
\* builds the returned graph and creates no tensor.
ad_build_backward(m, f, keep) ==
    LET gf == AdForward(m.t, f)
        m1 == Require(m, Len(gf) > 0)
    IN  IF m1.res /= "ok"
        THEN m1
        ELSE AdBackwardNodes(IF keep THEN AdDetach(m1, gf, 1) ELSE m1,
                             gf, Len(gf), keep)

\* the memory a call starts from
AdMem == [t |-> ad_t, res |-> "ok", ndebug |-> ad_call.ndebug]

\* the record of a call that returned r = [m, id]
AdReturn(name, args, r) ==
    /\ ad_t' = IF r.m.res = "ok" THEN r.m.t ELSE ad_t
    /\ ad_n' = ad_n + 1
    /\ ad_call' = [name |-> name, args |-> args, ret |-> r.id,
                   n_before |-> Len(ad_t), res |-> r.m.res,
                   ndebug |-> ad_call.ndebug]

InitAd ==
    /\ mode = "ad"
    /\ IdleSched
    /\ IdlePart
    /\ IdleMulMat
    /\ IdleCtx
    /\ IdleArena
    /\ IdleGraph
    /\ IdleKern
    /\ IdleOpt
    /\ IdleWork
    /\ IdleLs
    /\ IdleBw
    /\ ad_t = <<>>
    /\ ad_n = 0
    /\ \E ndebug \in BOOLEAN :
           ad_call = [name |-> "none", args |-> <<>>, ret |-> 0,
                      n_before |-> 0, res |-> "ok", ndebug |-> ndebug]

\* ggml_new_tensor(ctx, type, n_dims, ne)
AdNewTensor(shape) ==
    /\ ad_n < MaxAdOps
    /\ AdReturn("ggml_new_tensor", <<shape>>,
                [m |-> [AdMem EXCEPT !.t = Append(@, ggml_new_tensor(
                                                         Len(shape), shape))],
                 id |-> Len(ad_t) + 1])

\* ggml_set_param(ctx, tensor)
AdSetParam(tensor) ==
    /\ ad_n < MaxAdOps
    /\ AdReturn("ggml_set_param", <<tensor>>,
                [m |-> ggml_set_param(AdMem, tensor), id |-> 0])

\* the constructors with one source
AdUnary(op, a) ==
    /\ ad_n < MaxAdOps
    /\ AdReturn(op, <<a>>,
                CASE op = "SUM" -> ggml_sum(AdMem, a)
                  [] op = "MEAN" -> ggml_mean(AdMem, a)
                  [] op = "SGN" -> ggml_sgn(AdMem, a)
                  [] op = "GELU" -> ggml_gelu(AdMem, a)
                  [] op = "NORM" -> ggml_norm(AdMem, a)
                  [] op = "TRANSPOSE" -> ggml_transpose(AdMem, a)
                  [] op = "SOFT_MAX" -> ggml_soft_max(AdMem, a))

\* the constructors with two sources
AdBinary(op, a, b) ==
    /\ ad_n < MaxAdOps
    /\ AdReturn(op, <<a, b>>,
                CASE op = "ADD" -> ggml_add_impl(AdMem, a, b, FALSE)
                  [] op = "MUL_MAT" -> ggml_mul_mat(AdMem, a, b)
                  [] op = "REPEAT" -> ggml_repeat(AdMem, a, b))

\* gf = ggml_build_forward(f); ggml_build_backward(ctx, &gf, keep)
AdBuildBackward(f, keep) ==
    /\ ad_call.name /= "ggml_build_backward"
    /\ AdReturn("ggml_build_backward", <<f, keep>>,
                [m |-> ad_build_backward(AdMem, f, keep), id |-> 0])

NextAd ==
    /\ mode = "ad"
    /\ UNCHANGED <<mode, schedVars, partVars, mmVars, ctxVars, arenaVars,
                 graphVars, kernVars, optVars, workVars,
                 lsVars, bwVars>>
    /\ ad_call.res = "ok"
    /\ \/ \E shape \in AdShapes : AdNewTensor(shape)
       \/ \E tensor \in 1 .. Len(ad_t) : AdSetParam(tensor)
       \/ \E op \in UnaryOps : \E a \in 1 .. Len(ad_t) : AdUnary(op, a)
       \/ \E op \in BinaryOps : \E a \in 1 .. Len(ad_t) :
              \E b \in 1 .. Len(ad_t) : AdBinary(op, a, b)
       \/ \E f \in 1 .. Len(ad_t) : \E keep \in BOOLEAN :
              AdBuildBackward(f, keep)

SpecAd == InitAd /\ [][NextAd]_vars

\* ggml_mul, ggml_mul_inplace, ggml_div and ggml_div_inplace
AdMulDiv(op, a, b, inplace) ==
    /\ ad_n < MaxAdOps
    /\ AdReturn(IF op = "MUL"
                THEN (IF inplace THEN "ggml_mul_inplace" ELSE "ggml_mul")
                ELSE (IF inplace THEN "ggml_div_inplace" ELSE "ggml_div"),
                <<a, b>>,
                IF op = "MUL" THEN ggml_mul_impl(AdMem, a, b, inplace)
                              ELSE ggml_div_impl(AdMem, a, b, inplace))

\* the calls of a program that creates tensors, marks parameters and
\* multiplies or divides them
NextAdMulDiv ==
    /\ mode = "ad"
    /\ UNCHANGED <<mode, schedVars, partVars, mmVars, ctxVars, arenaVars,
                 graphVars, kernVars, optVars, workVars,
                 lsVars, bwVars>>
    /\ ad_call.res = "ok"
    /\ \/ \E shape \in AdShapes : AdNewTensor(shape)
       \/ \E tensor \in 1 .. Len(ad_t) : AdSetParam(tensor)
       \/ \E op \in {"MUL", "DIV"} : \E a \in 1 .. Len(ad_t) :
              \E b \in 1 .. Len(ad_t) : \E inplace \in BOOLEAN :
                  AdMulDiv(op, a, b, inplace)

SpecAdMulDiv == InitAd /\ [][NextAdMulDiv]_vars

\* C13: every tensor that has a grad has the shape of its grad:
\* x.grad.ne[k] = x.ne[k] for k = 0 .. 3, after any sequence of constructor
\* calls, ggml_set_param and ggml_build_backward.
C13_GradShape ==
    mode = "ad" =>
        \A x \in 1 .. Len(ad_t) :
            ad_t[x].grad /= 0 =>
                ggml_are_same_shape(ad_t[ad_t[x].grad], ad_t[x])

\* the last call was ggml_repeat(ctx, a, b) on two tensors of the same
\* shape, and it returned
RepeatSameShape ==
    /\ mode = "ad"
    /\ ad_call.name = "REPEAT"
    /\ ad_call.res = "ok"
    /\ ggml_are_same_shape(ad_t[ad_call.args[1]], ad_t[ad_call.args[2]])

\* C14 as stated: for a and b of the same shape ggml_repeat returns a itself
\* and allocates nothing, whether or not a has a grad.
C14_RepeatReturnsA ==
    RepeatSameShape =>
        /\ ad_call.ret = ad_call.args[1]
        /\ Len(ad_t) = ad_call.n_before

\* C14 amended: for a and b of the same shape ggml_repeat returns a itself
\* and allocates nothing when a has no grad; when a has a grad it returns
\* a new REPEAT tensor with source a, and allocates it and its grad.
C14_RepeatSameShape ==
    RepeatSameShape =>
        LET a == ad_call.args[1]
        IN  IF ad_t[a].grad = 0
            THEN /\ ad_call.ret = a
                 /\ Len(ad_t) = ad_call.n_before
            ELSE /\ ad_call.ret = ad_call.n_before + 1
                 /\ Len(ad_t) = ad_call.n_before + 2
                 /\ ad_t[ad_call.ret].op = "REPEAT"
                 /\ ad_t[ad_call.ret].src0 = a
                 /\ ad_t[ad_call.ret].grad = ad_call.n_before + 2

\* ggml_repeat returned a for a second tensor b of the same shape
C14_Witness ==
    /\ RepeatSameShape
    /\ ad_call.args[1] /= ad_call.args[2]
    /\ ad_call.ret = ad_call.args[1]
    /\ ad_t[ad_call.args[1]].ne[1] > 1

\* ggml_compute_backward has no backward rule for the tensor: its op is one
\* of those the switch only asserts on, or MUL_MAT with a differentiable
\* first operand
NoBackwardRule(t, node) ==
    \/ BackwardKind(t[node].op) /= "rule"
    \/ t[node].op = "MUL_MAT" /\ t[t[node].src0].grad /= 0

\* C15: ggml_build_backward on a graph that has a node with a grad and
\* without backward rule ends the process; it never returns having
\* skipped the node.
C15_NoSilentBackward ==
    [][(/\ mode = "ad"
        /\ ad_call'.name = "ggml_build_backward"
        /\ \E i \in DOMAIN AdForward(ad_t, ad_call'.args[1]) :
               LET node == AdForward(ad_t, ad_call'.args[1])[i]
               IN  ad_t[node].grad /= 0 /\ NoBackwardRule(ad_t, node))
           => ad_call'.res = "abort"]_vars

\* ------------------------------------------------------------------------
\* Construction and execution of SCALE and ADD nodes: element types and
\* strides
\* ------------------------------------------------------------------------
\* constructor calls of one behaviour
MaxKernOps == 3

KernTypes == {"F32", "F16"}

\* ggml_new_tensor_impl with the strides: nb[0] = GGML_TYPE_SIZE[type],
\* nb[i] = nb[i - 1]*ne[i - 1]
Strides(type, ne) ==
    <<GGML_TYPE_SIZE[type],
      GGML_TYPE_SIZE[type] * ne[1],
      GGML_TYPE_SIZE[type] * ne[1] * ne[2],
      GGML_TYPE_SIZE[type] * ne[1] * ne[2] * ne[3]>>

KNewTensor(type, n_dims, ne) ==
    [type |-> type, n_dims |-> n_dims, ne |-> Trunc(n_dims, ne),
     nb |-> Strides(type, Trunc(n_dims, ne)), op |-> "NONE", grad |-> 0,
     src0 |-> 0, src1 |-> 0]

ggml_is_scalar(tensor) == \A i \in 1 .. GGML_MAX_DIMS : tensor.ne[i] = 1

ggml_is_contiguous(tensor) ==
    /\ tensor.nb[1] = GGML_TYPE_SIZE[tensor.type]
    /\ tensor.nb[2] = tensor.nb[1] * tensor.ne[1]
    /\ tensor.nb[3] = tensor.nb[2] * tensor.ne[2]
    /\ tensor.nb[4] = tensor.nb[3] * tensor.ne[3]

ggml_is_padded_1d(tensor) ==
    /\ tensor.nb[1] = GGML_TYPE_SIZE[tensor.type]
    /\ tensor.nb[3] = tensor.nb[2] * tensor.ne[2]
    /\ tensor.nb[4] = tensor.nb[3] * tensor.ne[3]

\* a constructor's new tensor appended to the context
KAppend(m, fields) ==
    IF m.res /= "ok" THEN m ELSE [m EXCEPT !.t = Append(@, fields)]

\* ggml_view_2d(ctx, a, ne0, ne1, nb1, offset): the row stride is the
\* caller's
ggml_view_2d(m, a, ne0, ne1, nb1) ==
    KAppend(m,
            [KNewTensor(m.t[a].type, 2, <<ne0, ne1>>) EXCEPT
                 !.nb[2] = nb1, !.nb[3] = nb1 * ne1, !.nb[4] = nb1 * ne1,
                 !.op = "VIEW", !.src0 = a])

\* ggml_scale_impl(ctx, a, b, inplace): assert(ggml_is_scalar(b));
\* assert(ggml_is_padded_1d(a)); result = ggml_view_tensor(ctx, a)
ggml_scale_impl(m, a, b) ==
    KAppend(Require(Require(m, ggml_is_scalar(m.t[b])),
                    ggml_is_padded_1d(m.t[a])),
            [KNewTensor(m.t[a].type, m.t[a].n_dims, m.t[a].ne) EXCEPT
                 !.op = "SCALE", !.src0 = a, !.src1 = b])

\* ggml_add(ctx, a, b): assert(ggml_are_same_shape(a, b)); result =
\* ggml_dup_tensor(ctx, a)
ggml_add(m, a, b) ==
    KAppend(Require(m, ggml_are_same_shape(m.t[a], m.t[b])),
            [KNewTensor(m.t[a].type, m.t[a].n_dims, m.t[a].ne) EXCEPT
                 !.op = "ADD", !.src0 = a, !.src1 = b])

\* ggml_compute_forward_scale_f32: four GGML_ASSERTs before the kernel
ggml_compute_forward_scale_f32(m, src0, src1, dst) ==
    RequireAlways(m, /\ ggml_is_contiguous(src0)
                     /\ ggml_is_contiguous(dst)
                     /\ ggml_are_same_shape(src0, dst)
                     /\ ggml_is_scalar(src1))

\* ggml_compute_forward_scale: F32 has a kernel, every other type
\* assert(false)
ggml_compute_forward_scale(m, src0, src1, dst) ==
    IF src0.type = "F32"
    THEN ggml_compute_forward_scale_f32(m, src0, src1, dst)
    ELSE Require(m, FALSE)

\* ggml_compute_forward_add_f32: GGML_ASSERT on the shapes and on nb0 and
\* nb00
ggml_compute_forward_add_f32(m, src0, src1, dst) ==
    RequireAlways(m, /\ ggml_are_same_shape(src0, src1)
                     /\ ggml_are_same_shape(src0, dst)
                     /\ dst.nb[1] = SizeofFloat
                     /\ src0.nb[1] = SizeofFloat)

\* ggml_compute_forward_add: F32 has a kernel, every other type
\* assert(false)
ggml_compute_forward_add(m, src0, src1, dst) ==
    IF src0.type = "F32"
    THEN ggml_compute_forward_add_f32(m, src0, src1, dst)
    ELSE Require(m, FALSE)

\* ggml_compute_forward(params, tensor), for the ops of this part; the
\* kernel of VIEW does nothing
KComputeForward(m, tensor) ==
    CASE m.t[tensor].op = "ADD" ->
             ggml_compute_forward_add(m, m.t[m.t[tensor].src0],
                                      m.t[m.t[tensor].src1], m.t[tensor])
      [] m.t[tensor].op = "SCALE" ->
             ggml_compute_forward_scale(m, m.t[m.t[tensor].src0],
                                        m.t[m.t[tensor].src1], m.t[tensor])
      [] OTHER -> m

\* ggml_graph_compute: ggml_compute_forward on nodes[0 .. n_nodes - 1]
RECURSIVE KGraphCompute(_, _, _)
KGraphCompute(m, gf, i) ==
    IF i > Len(gf) \/ m.res /= "ok"
    THEN m
    ELSE KGraphCompute(KComputeForward(m, gf[i]), gf, i + 1)

\* the memory a call starts from
KMem == [t |-> k_t, res |-> "ok", ndebug |-> k_call.ndebug]

\* the record of a call that ended with memory m
KReturn(name, args, m) ==
    /\ k_t' = IF m.res = "ok" THEN m.t ELSE k_t
    /\ k_n' = k_n + 1
    /\ k_call' = [name |-> name, args |-> args, res |-> m.res,
                  ndebug |-> k_call.ndebug]

InitKern ==
    /\ mode = "kern"
    /\ IdleSched
    /\ IdlePart
    /\ IdleMulMat
    /\ IdleCtx
    /\ IdleArena
    /\ IdleGraph
    /\ IdleAd
    /\ IdleOpt
    /\ IdleWork
    /\ IdleLs
    /\ IdleBw
    /\ k_t = <<>>
    /\ k_n = 0
    /\ \E ndebug \in BOOLEAN :
           k_call = [name |-> "none", args |-> <<>>, res |-> "ok",
                     ndebug |-> ndebug]

\* ggml_new_tensor(ctx, type, n_dims, ne)
KernNewTensor(type, shape) ==
    /\ k_n < MaxKernOps
    /\ KReturn("ggml_new_tensor", <<type, shape>>,
               KAppend(KMem, KNewTensor(type, Len(shape), shape)))

\* ggml_view_2d(ctx, a, ne0, ne1, nb1, 0) with the row stride of a view of
\* whole rows or of a
KernView2d(a, ne0, ne1, nb1) ==
    /\ k_n < MaxKernOps
    /\ ne0 <= k_t[a].ne[1] /\ ne1 <= k_t[a].ne[2]
    /\ nb1 \in {ne0 * GGML_TYPE_SIZE[k_t[a].type], k_t[a].nb[2]}
    /\ KReturn("ggml_view_2d", <<a, ne0, ne1, nb1>>,
               ggml_view_2d(KMem, a, ne0, ne1, nb1))

\* ggml_scale(ctx, a, b)
KernScale(a, b) ==
    /\ k_n < MaxKernOps
    /\ KReturn("ggml_scale", <<a, b>>, ggml_scale_impl(KMem, a, b))

\* ggml_add(ctx, a, b)
KernAdd(a, b) ==
    /\ k_n < MaxKernOps
    /\ KReturn("ggml_add", <<a, b>>, ggml_add(KMem, a, b))

\* gf = ggml_build_forward(tensor); ggml_graph_compute(ctx, &gf)
KernGraphCompute(tensor) ==
    /\ k_call.name /= "ggml_graph_compute"
    /\ KReturn("ggml_graph_compute", <<tensor>>,
               KGraphCompute(KMem, AdForward(k_t, tensor), 1))

NextKern ==
    /\ mode = "kern"
    /\ UNCHANGED <<mode, schedVars, partVars, mmVars, ctxVars, arenaVars,
                 graphVars, adVars, optVars, workVars,
                 lsVars, bwVars>>
    /\ k_call.res = "ok"
    /\ \/ \E type \in KernTypes : \E shape \in AdShapes :
              KernNewTensor(type, shape)
       \/ \E a \in 1 .. Len(k_t) : \E ne0 \in 1 .. 2 : \E ne1 \in 1 .. 2 :
              \E nb1 \in 1 .. (2 * SizeofFloat) : KernView2d(a, ne0, ne1, nb1)
       \/ \E a \in 1 .. Len(k_t) : \E b \in 1 .. Len(k_t) : KernScale(a, b)
       \/ \E a \in 1 .. Len(k_t) : \E b \in 1 .. Len(k_t) : KernAdd(a, b)
       \/ \E tensor \in 1 .. Len(k_t) : KernGraphCompute(tensor)

SpecKern == InitKern /\ [][NextKern]_vars

\* C17: a graph whose constructors all returned executes in
\* ggml_graph_compute without a kernel assertion on shape, stride or
\* element type ending the run.
C17_NoKernelAssertion ==
    (mode = "kern" /\ k_call.name = "ggml_graph_compute") =>
        k_call.res = "ok"

\* ------------------------------------------------------------------------
\* ggml_opt and ggml_opt_lbfgs
\* ------------------------------------------------------------------------
\* float values in quarters (One is 1.0f), and a NaN
NaN == -1

One == 4

WolfeVals == {NaN, 0, 2, 4, 5}

FtolVals == {NaN, 1}

\* a <= b on floats: false when an operand is a NaN
FLe(a, b) == a /= NaN /\ b /= NaN /\ a <= b

Linesearches == {"BACKTRACKING_ARMIJO", "BACKTRACKING_WOLFE",
                 "BACKTRACKING_STRONG_WOLFE"}

OptTypes == {"ADAM", "LBFGS"}

\* the struct ggml_opt_params the callers pass
OptParams ==
    [type : OptTypes, n_threads : {1, 2}, past : {0, 1}, m : {1},
     linesearch : Linesearches, wolfe : WolfeVals, ftol : FtolVals]

\* what the optimizers return when the run is over, or "abort" when an
\* assert ends the process
AdamResults == {"OK", "DID_NOT_CONVERGE", "abort"}

\* LINESEARCH_FAIL stands for the negative codes of linesearch_backtracking
LbfgsResults == {"OK", "DID_NOT_CONVERGE", "LINESEARCH_FAIL", "abort"}

\* values a parameter tensor can hold
XVals == 0 .. 1

\* the first two ifs of ggml_opt_lbfgs
InvalidWolfeNotStrong(params) ==
    /\ params.linesearch = "BACKTRACKING_WOLFE"
    /\ FLe(params.wolfe, params.ftol) \/ FLe(One, params.wolfe)

InvalidWolfe(params) ==
    /\ params.linesearch \in {"BACKTRACKING_WOLFE",
                              "BACKTRACKING_STRONG_WOLFE"}
    /\ FLe(params.wolfe, params.ftol) \/ FLe(One, params.wolfe)

\* what a run works on: the graphs' n_threads, the parameter values, the
\* tensors it allocated in ctx and the graphs it executed
NoRun(nt, x) ==
    [n_threads |-> nt, x |-> x, allocs |-> 0, computes |-> 0,
     res |-> "none"]

\* ggml_opt_lbfgs(ctx, params, f, gf, gb).  After the check of the
\* parameters it sets n_threads, allocates x, xp, g, gp, d, pf and the
\* L-BFGS memory, executes gb, and iterates; the values the iteration
\* leaves in the parameters and the way it ends depend on f: x and
\* outcome.
ggml_opt_lbfgs(st, params, x, outcome) ==
    IF InvalidWolfe(params)
    THEN [st EXCEPT !.res = "INVALID_WOLFE"]
    ELSE [n_threads |-> params.n_threads,
          x |-> x,
          allocs |-> st.allocs + 5 + (IF params.past > 0 THEN 1 ELSE 0)
                        + 2 * params.m,
          computes |-> st.computes + 1,
          res |-> IF outcome \in LbfgsResults THEN outcome ELSE "OK"]

\* ggml_opt_adam(ctx, params, f, gf, gb): sets n_threads, allocates x, g1,
\* g2, m, v, mh, vh and pf, executes gb, and iterates
ggml_opt_adam(st, params, x, outcome) ==
    [n_threads |-> params.n_threads,
     x |-> x,
     allocs |-> st.allocs + 7 + (IF params.past > 0 THEN 1 ELSE 0),
     computes |-> st.computes + 1,
     res |-> IF outcome \in AdamResults THEN outcome ELSE "OK"]

\* the slot ggml_init takes: the first with used == false, 0 (NULL) when
\* there is none
FirstUnused(u) ==
    IF \A i \in DOMAIN u : u[i]
    THEN 0
    ELSE CHOOSE i \in DOMAIN u : ~u[i] /\ \A j \in 1 .. (i - 1) : u[j]

\* ggml_init and ggml_free of a single thread, on the slot table
ggml_init(u) ==
    IF FirstUnused(u) = 0 THEN u ELSE [u EXCEPT ![FirstUnused(u)] = TRUE]

ggml_free(u, ctx) ==
    IF ctx \in DOMAIN u THEN [u EXCEPT ![ctx] = FALSE] ELSE u

\* ggml_opt(ctx, params, f) with ctx == NULL if ggml_free(ctx) were left
\* out
ggml_opt_no_free(u, x0, params, x, outcome) ==
    LET ctx == FirstUnused(u)
        run == IF params.type = "ADAM"
               THEN ggml_opt_adam(NoRun(0, x0), params, x, outcome)
               ELSE ggml_opt_lbfgs(NoRun(0, x0), params, x, outcome)
    IN  IF ctx = 0
        THEN [used |-> u, ctx |-> 0,
              run |-> [NoRun(0, x0) EXCEPT !.res = "NO_CONTEXT"]]
        ELSE [used |-> ggml_init(u), ctx |-> ctx, run |-> run]

\* ggml_opt(ctx, params, f) with ctx == NULL: the slot table after the
\* call, the temporary context and the run.  gf and gb are locals of the
\* call.  A run that ends the process frees nothing.
ggml_opt(u, x0, params, x, outcome) ==
    LET ctx == FirstUnused(u)
        run == IF params.type = "ADAM"
               THEN ggml_opt_adam(NoRun(0, x0), params, x, outcome)
               ELSE ggml_opt_lbfgs(NoRun(0, x0), params, x, outcome)
    IN  IF ctx = 0
        THEN [used |-> u, ctx |-> 0,
              run |-> [NoRun(0, x0) EXCEPT !.res = "NO_CONTEXT"]]
        ELSE [used |-> IF run.res = "abort" THEN ggml_init(u)
                       ELSE ggml_free(ggml_init(u), ctx),
              ctx |-> ctx, run |-> run]

InitOpt ==
    /\ mode = "opt"
    /\ IdleSched
    /\ IdlePart
    /\ IdleMulMat
    /\ IdleCtx
    /\ IdleArena
    /\ IdleGraph
    /\ IdleAd
    /\ IdleKern
    /\ IdleWork
    /\ IdleLs
    /\ IdleBw
    /\ o_used = [i \in Slots |-> FALSE]
    /\ o_n_threads \in {0, 1}
    /\ o_x \in XVals
    /\ o_call = [name |-> "none", params |-> <<>>, ctx |-> 0,
                 res |-> "none", allocs |-> 0, computes |-> 0]

\* the program calls ggml_init: a context of its own
OptUserInit ==
    /\ o_used' = ggml_init(o_used)
    /\ o_call' = [name |-> "ggml_init", params |-> <<>>,
                  ctx |-> FirstUnused(o_used), res |-> "none",
                  allocs |-> 0, computes |-> 0]
    /\ UNCHANGED <<o_n_threads, o_x>>

\* the program calls ggml_free on one of its contexts
OptUserFree(ctx) ==
    /\ o_used[ctx]
    /\ o_used' = ggml_free(o_used, ctx)
    /\ o_call' = [name |-> "ggml_free", params |-> <<>>, ctx |-> ctx,
                  res |-> "none", allocs |-> 0, computes |-> 0]
    /\ UNCHANGED <<o_n_threads, o_x>>

\* the program calls ggml_opt_lbfgs(ctx, params, f, &gf, &gb) with a
\* context and graphs of its own
OptLbfgs(params, x, outcome) ==
    /\ \E i \in Slots : o_used[i]
    /\ LET run == ggml_opt_lbfgs(NoRun(o_n_threads, o_x), params, x, outcome)
       IN  /\ o_n_threads' = run.n_threads
           /\ o_x' = run.x
           /\ o_call' = [name |-> "ggml_opt_lbfgs", params |-> params,
                         ctx |-> 0, res |-> run.res, allocs |-> run.allocs,
                         computes |-> run.computes]
    /\ UNCHANGED o_used

\* the program calls ggml_opt(NULL, params, f)
OptNullCtx(params, x, outcome) ==
    /\ LET r == ggml_opt(o_used, o_x, params, x, outcome)
       IN  /\ o_used' = r.used
           /\ o_x' = r.run.x
           /\ o_call' = [name |-> "ggml_opt", params |-> params,
                         ctx |-> r.ctx, res |-> r.run.res,
                         allocs |-> r.run.allocs,
                         computes |-> r.run.computes]
    /\ UNCHANGED o_n_threads

NextOpt ==
    /\ mode = "opt"
    /\ UNCHANGED <<mode, schedVars, partVars, mmVars, ctxVars, arenaVars,
                 graphVars, adVars, kernVars, workVars,
                 lsVars, bwVars>>
    /\ o_call.name \notin {"ggml_opt", "ggml_opt_lbfgs"}
    /\ \/ OptUserInit
       \/ \E ctx \in Slots : OptUserFree(ctx)
       \/ \E params \in OptParams : \E x \in XVals :
              \E outcome \in LbfgsResults : OptLbfgs(params, x, outcome)
       \/ \E params \in OptParams : \E x \in XVals :
              \E outcome \in LbfgsResults : OptNullCtx(params, x, outcome)

SpecOpt == InitOpt /\ [][NextOpt]_vars

\* C18: ggml_opt_lbfgs returns INVALID_WOLFE exactly when the line search is
\* BACKTRACKING_WOLFE or BACKTRACKING_STRONG_WOLFE and wolfe <= ftol or
\* wolfe >= 1; it then has executed no graph, allocated no tensor, and
\* left the parameter tensors and the graphs' n_threads as they were.
C18_InvalidWolfe ==
    [][(mode = "opt" /\ o_call'.name = "ggml_opt_lbfgs") =>
           /\ o_call'.res = "INVALID_WOLFE" <=>
                  /\ o_call'.params.linesearch \in
                         {"BACKTRACKING_WOLFE", "BACKTRACKING_STRONG_WOLFE"}
                  /\ \/ FLe(o_call'.params.wolfe, o_call'.params.ftol)
                     \/ FLe(One, o_call'.params.wolfe)
           /\ o_call'.res = "INVALID_WOLFE" =>
                  /\ o_call'.computes = 0
                  /\ o_call'.allocs = 0
                  /\ o_x' = o_x
                  /\ o_n_threads' = o_n_threads]_vars

\* ggml_opt_lbfgs returned INVALID_WOLFE for a strong Wolfe search with
\* wolfe >= 1 and an n_threads that differs from the graphs'
C18_Witness ==
    /\ mode = "opt"
    /\ o_call.name = "ggml_opt_lbfgs"
    /\ o_call.res = "INVALID_WOLFE"
    /\ o_call.params.linesearch = "BACKTRACKING_STRONG_WOLFE"
    /\ o_call.params.wolfe > One
    /\ o_call.params.n_threads /= o_n_threads

\* C19: ggml_opt with a null context returns NO_CONTEXT, without running
\* an optimizer, exactly when no slot is free; otherwise it runs in a
\* temporary context that it frees before it returns, so the used slots
\* after the call are those before the call.
C19_TemporaryContext ==
    [][(/\ mode = "opt"
        /\ o_call'.name = "ggml_opt"
        /\ o_call'.res /= "abort") =>
           /\ o_call'.res = "NO_CONTEXT" <=> \A i \in Slots : o_used[i]
           /\ o_call'.res = "NO_CONTEXT" =>
                  o_call'.computes = 0 /\ o_call'.allocs = 0 /\ o_x' = o_x
           /\ o_call'.res /= "NO_CONTEXT" =>
                  o_call'.ctx \in Slots /\ ~o_used[o_call'.ctx]
           /\ o_used' = o_used]_vars

\* ggml_opt ran an optimizer in a temporary context next to a context of
\* the program, and returned
C19_Witness ==
    /\ mode = "opt"
    /\ o_call.name = "ggml_opt"
    /\ o_call.res = "OK"
    /\ o_call.computes > 0
    /\ o_call.ctx > 1
    /\ o_used[1]
    /\ ~o_used[o_call.ctx]

\* ------------------------------------------------------------------------
\* linesearch_backtracking and the iteration of ggml_opt_lbfgs that calls it
\* ------------------------------------------------------------------------
\* The float values of the two functions are exact fractions n/d with d > 0;
\* rounding is not modelled.  There is one parameter tensor of one element
\* (np = 1, nx = 1), so that a dot product is a product.
Q(n, d) == [n |-> n, d |-> d]

QAdd(a, b) == Q(a.n * b.d + b.n * a.d, a.d * b.d)

QMul(a, b) == Q(a.n * b.n, a.d * b.d)

QNeg(a) == [n |-> -a.n, d |-> a.d]

QLt(a, b) == a.n * b.d < b.n * a.d

QLe(a, b) == a.n * b.d <= b.n * a.d

QEq(a, b) == a.n * b.d = b.n * a.d

\* the enumerators of enum ggml_opt_result that linesearch_backtracking
\* returns
ggml_opt_result ==
    [GGML_LINESEARCH_FAIL |-> -128,
     GGML_LINESEARCH_MINIMUM_STEP |-> -127,
     GGML_LINESEARCH_MAXIMUM_STEP |-> -126,
     GGML_LINESEARCH_MAXIMUM_ITERATIONS |-> -125,
     GGML_LINESEARCH_INVALID_PARAMETERS |-> -124]

\* const float dec = 0.5f; const float inc = 2.1f;
dec == Q(1, 2)

inc == Q(21, 10)

\* what ggml_opt_lbfgs passes to linesearch_backtracking: params.lbfgs, the
\* stored point xp and gradient gp, the direction d, and fx and step
LsInputs ==
    [linesearch : Linesearches,
     max_linesearch : 0 .. MaxLinesearch,
     ftol : {Q(1, 2)}, wolfe : {Q(9, 10)},
     min_step : {Q(1, 1)}, max_step : {Q(4, 1)},
     xp : {Q(0, 1), Q(1, 1)},
     gp : {Q(-1, 1), Q(0, 1), Q(1, 1)},
     d : {Q(-1, 1), Q(0, 1), Q(1, 1)},
     fx : {Q(1, 1)},
     step : {Q(0, 1), Q(1, 1), Q(2, 1)}]

\* the values f and its gradient can take at a point
FxVals == {Q(0, 1), Q(1, 1), Q(2, 1)}

GradVals == {Q(-1, 1), Q(0, 1), Q(1, 1)}

\* linesearch_backtracking up to the loop
linesearch_enter(in, st) ==
    LET dginit == QMul(st.g, in.d)
    IN  IF QLe(st.step, Q(0, 1))
        THEN [st EXCEPT !.pc = "returned",
                        !.ls = ggml_opt_result.GGML_LINESEARCH_INVALID_PARAMETERS]
        ELSE IF QLt(Q(0, 1), dginit)
        THEN [st EXCEPT !.pc = "returned",
                        !.ls = ggml_opt_result.GGML_LINESEARCH_FAIL]
        ELSE [st EXCEPT !.pc = "loop", !.count = 0, !.dginit = dginit,
                        !.finit = st.fx]

\* return v from linesearch_backtracking
LsReturn(st, v) == [st EXCEPT !.pc = "returned", !.ls = v]

\* the end of an iteration without the test of max_linesearch
LinesearchNextNoLimit(in, st, width) ==
    IF QLt(st.step, in.min_step)
    THEN LsReturn(st, ggml_opt_result.GGML_LINESEARCH_MINIMUM_STEP)
    ELSE IF QLt(in.max_step, st.step)
    THEN LsReturn(st, ggml_opt_result.GGML_LINESEARCH_MAXIMUM_STEP)
    ELSE [st EXCEPT !.step = QMul(st.step, width)]

\* the end of an iteration that did not accept the step
linesearch_next(in, st, width) ==
    IF QLt(st.step, in.min_step)
    THEN LsReturn(st, ggml_opt_result.GGML_LINESEARCH_MINIMUM_STEP)
    ELSE IF QLt(in.max_step, st.step)
    THEN LsReturn(st, ggml_opt_result.GGML_LINESEARCH_MAXIMUM_STEP)
    ELSE IF in.max_linesearch <= st.count
    THEN LsReturn(st, ggml_opt_result.GGML_LINESEARCH_MAXIMUM_ITERATIONS)
    ELSE [st EXCEPT !.step = QMul(st.step, width)]

\* one iteration of while (true): the point x = xp + step*d is written to
\* the parameter tensor, the graph is evaluated and gives fx and g
linesearch_iterate(in, st, fx, g) ==
    LET x == QAdd(in.xp, QMul(st.step, in.d))
        s1 == [st EXCEPT !.x = x, !.ps = x, !.evals = @ + 1, !.g = g,
                         !.fx = fx, !.count = @ + 1]
        dgtest == QMul(in.ftol, st.dginit)
        dg == QMul(g, in.d)
    IN  IF QLt(QAdd(st.finit, QMul(st.step, dgtest)), fx)
        THEN linesearch_next(in, s1, dec)
        ELSE IF in.linesearch = "BACKTRACKING_ARMIJO"
        THEN LsReturn(s1, s1.count)
        ELSE IF QLt(dg, QMul(in.wolfe, st.dginit))
        THEN linesearch_next(in, s1, inc)
        ELSE IF in.linesearch = "BACKTRACKING_WOLFE"
        THEN LsReturn(s1, s1.count)
        \* strong Wolfe: width = dec or return count, and then return count
        ELSE LsReturn(s1, s1.count)

\* ggml_opt_lbfgs after the call: if (ls < 0) it copies xp to x and gp to g
\* and returns ls
lbfgs_after_linesearch(in, st) ==
    IF st.ls < 0
    THEN [st EXCEPT !.pc = "failed", !.x = in.xp, !.g = in.gp]
    ELSE [st EXCEPT !.pc = "accepted"]

\* ggml_opt_lbfgs before an iteration of its loop
InitLs ==
    /\ mode = "ls"
    /\ IdleSched
    /\ IdlePart
    /\ IdleMulMat
    /\ IdleCtx
    /\ IdleArena
    /\ IdleGraph
    /\ IdleAd
    /\ IdleKern
    /\ IdleOpt
    /\ IdleWork
    /\ IdleBw
    /\ ls_in = <<>>
    /\ ls_st = [pc |-> "start"]

\* the iteration starts: xp and gp are copied from x and g, and the
\* parameter tensor holds x since the last evaluation of the graph
LbfgsIterate(in) ==
    /\ ls_st.pc = "start"
    /\ ls_in' = in
    /\ ls_st' = [pc |-> "call", x |-> in.xp, ps |-> in.xp, g |-> in.gp,
                 fx |-> in.fx, step |-> in.step, count |-> 0,
                 finit |-> Q(0, 1), dginit |-> Q(0, 1), ls |-> 0,
                 evals |-> 0]

LinesearchEnter ==
    /\ ls_st.pc = "call"
    /\ ls_st' = linesearch_enter(ls_in, ls_st)
    /\ UNCHANGED ls_in

LinesearchIterate(fx, g) ==
    /\ ls_st.pc = "loop"
    /\ ls_st' = linesearch_iterate(ls_in, ls_st, fx, g)
    /\ UNCHANGED ls_in

LbfgsAfterLinesearch ==
    /\ ls_st.pc = "returned"
    /\ ls_st' = lbfgs_after_linesearch(ls_in, ls_st)
    /\ UNCHANGED ls_in

NextLs ==
    /\ mode = "ls"
    /\ UNCHANGED <<mode, schedVars, partVars, mmVars, ctxVars, arenaVars,
                 graphVars, adVars, kernVars, optVars, workVars, bwVars>>
    /\ \/ ls_st.pc = "start" /\ \E in \in LsInputs : LbfgsIterate(in)
       \/ LinesearchEnter
       \/ \E fx \in FxVals : \E g \in GradVals : LinesearchIterate(fx, g)
       \/ LbfgsAfterLinesearch

SpecLs == InitLs /\ [][NextLs]_vars

\* the thread that runs ggml_opt_lbfgs keeps running
FairLs == SpecLs /\ WF_vars(NextLs)

\* ------------------------------------------------------------------------
\* ggml_compute_backward on a node with one source: the tensor it makes
\* src0->grad, and the value that tensor has once the graph is computed
\* ------------------------------------------------------------------------
\* The tensors have one element; values are exact fractions.
QSub(a, b) == Q(a.n * b.d - b.n * a.d, a.d * b.d)

\* a / b for b /= 0
QDiv(a, b) ==
    IF b.n < 0 THEN Q(-(a.n * b.d), -(a.d * b.n)) ELSE Q(a.n * b.d, a.d * b.n)

\* sqrt of the square of an integer
ExactSqrt(a) ==
    Q(CHOOSE r \in 0 .. a.n : r * r = a.n, 1)

\* ggml_vec_sqr_f32, _sqrt_, _abs_, _sgn_, _neg_, _step_, _relu_: y[i] of x[i]
VecUnary(op, x) ==
    CASE op = "SQR" -> QMul(x, x)
      [] op = "SQRT" -> ExactSqrt(x)
      [] op = "ABS" -> IF x.n < 0 THEN QNeg(x) ELSE x
      [] op = "SGN" -> IF x.n > 0 THEN Q(1, 1)
                       ELSE IF x.n < 0 THEN Q(-1, 1) ELSE Q(0, 1)
      [] op = "NEG" -> QNeg(x)
      [] op = "STEP" -> IF x.n > 0 THEN Q(1, 1) ELSE Q(0, 1)
      [] op = "RELU" -> IF x.n > 0 THEN x ELSE Q(0, 1)

\* ggml_vec_add_f32, _sub_, _mul_, _div_: z[i] of x[i] and y[i]
VecBinary(op, x, y) ==
    CASE op = "ADD" -> QAdd(x, y)
      [] op = "SUB" -> QSub(x, y)
      [] op = "MUL" -> QMul(x, y)
      [] op = "DIV" -> QDiv(x, y)

\* the ops with one source that ggml_compute_backward has a case for
BackwardUnaryOps == {"SQR", "SQRT", "ABS", "SGN", "NEG", "STEP", "RELU"}

\* the node and its values: x of src0, gr of tensor->grad and g0 of
\* src0->grad before the call; sqrt is taken of squares only
BwInputs ==
    {in \in [op : BackwardUnaryOps,
             x : {Q(-2, 1), Q(-1, 1), Q(0, 1), Q(1, 1), Q(4, 1)},
             gr : {Q(-1, 1), Q(1, 1), Q(2, 1)},
             g0 : {Q(0, 1), Q(1, 1)},
             has_grad : BOOLEAN,
             inplace : BOOLEAN] :
        in.op = "SQRT" => in.x.n > 0}

\* a tensor that is given, a tensor ggml_new_f32 made, and a tensor an
\* operator made
Given(name) == <<"tensor", name>>

NewF32(value) == <<"f32", value>>

Op1(op, a) == <<op, a>>

Op2(op, a, b) == <<op, a, b>>

\* the tensor ggml_compute_backward(ctx, tensor, inplace) assigns to
\* src0->grad, when src0->grad is not NULL
BackwardGrad(op) ==
    CASE op = "SQR" ->
             Op2("ADD", Given("src0.grad"),
                 Op2("MUL", Op2("MUL", Given("src0"), Given("tensor.grad")),
                     Op2("REPEAT", NewF32(Q(2, 1)), Given("src0"))))
      [] op = "SQRT" ->
             Op2("ADD", Given("src0.grad"),
                 Op2("DIV", Op2("REPEAT", NewF32(Q(1, 2)), Given("tensor")),
                     Given("tensor")))
      [] op = "ABS" ->
             Op2("ADD", Given("src0.grad"),
                 Op2("MUL", Op1("SGN", Given("src0")), Given("tensor.grad")))
      [] op = "SGN" -> Given("src0.grad")
      [] op = "NEG" ->
             Op2("SUB", Given("src0.grad"), Given("tensor.grad"))
      [] op = "STEP" -> Given("src0.grad")
      [] op = "RELU" ->
             Op2("SUB", Given("src0.grad"),
                 Op2("MUL", Op1("STEP", Given("src0")), Given("tensor.grad")))

\* the value ggml_graph_compute gives a tensor: the forward kernel of its op
\* on the values of its sources; REPEAT of a one-element tensor gives its
\* value to every element
RECURSIVE TensorValue(_, _)
TensorValue(e, given) ==
    CASE e[1] = "tensor" -> given[e[2]]
      [] e[1] = "f32" -> e[2]
      [] e[1] = "REPEAT" -> TensorValue(e[2], given)
      [] Len(e) = 2 -> VecUnary(e[1], TensorValue(e[2], given))
      [] OTHER -> VecBinary(e[1], TensorValue(e[2], given),
                            TensorValue(e[3], given))

InitBw ==
    /\ mode = "bw"
    /\ IdleSched
    /\ IdlePart
    /\ IdleMulMat
    /\ IdleCtx
    /\ IdleArena
    /\ IdleGraph
    /\ IdleAd
    /\ IdleKern
    /\ IdleOpt
    /\ IdleWork
    /\ IdleLs
    /\ bw_in \in BwInputs
    /\ bw_out = [pc |-> "built", tensor |-> Q(0, 1),
                 grad |-> Given("src0.grad"), value |-> bw_in.g0]

\* the forward graph is computed: tensor = op(src0)
BwForward ==
    /\ bw_out.pc = "built"
    /\ bw_out' = [bw_out EXCEPT !.pc = "forward",
                                !.tensor = VecUnary(bw_in.op, bw_in.x)]
    /\ UNCHANGED bw_in

\* ggml_compute_backward(ctx, tensor, inplace)
BwBackward ==
    /\ bw_out.pc = "forward"
    /\ bw_out' = [bw_out EXCEPT !.pc = "backward",
                                !.grad = IF bw_in.has_grad
                                         THEN BackwardGrad(bw_in.op)
                                         ELSE @]
    /\ UNCHANGED bw_in

\* the backward graph is computed: the value of src0->grad
BwCompute ==
    /\ bw_out.pc = "backward"
    /\ bw_out' = [bw_out EXCEPT !.pc = "computed",
                                !.value = TensorValue(
                                    bw_out.grad,
                                    [x \in {"src0", "tensor", "tensor.grad",
                                            "src0.grad"} |->
                                        CASE x = "src0" -> bw_in.x
                                          [] x = "tensor" -> bw_out.tensor
                                          [] x = "tensor.grad" -> bw_in.gr
                                          [] x = "src0.grad" -> bw_in.g0])]
    /\ UNCHANGED bw_in

NextBw ==
    /\ mode = "bw"
    /\ UNCHANGED <<mode, schedVars, partVars, mmVars, ctxVars, arenaVars,
                 graphVars, adVars, kernVars, optVars, workVars, lsVars>>
    /\ \/ BwForward
       \/ BwBackward
       \/ BwCompute

SpecBw == InitBw /\ [][NextBw]_vars

\* ------------------------------------------------------------------------
\* The work buffer: its size in ggml_graph_compute and its use by the
\* column-parallel MUL_MAT kernel and the CONV_1D kernels
\* ------------------------------------------------------------------------
CACHE_LINE_SIZE == 64

SizeofHalf == 2

\* const size_t CACHE_LINE_SIZE_F32 = CACHE_LINE_SIZE/sizeof(float)
CACHE_LINE_SIZE_F32 == CACHE_LINE_SIZE \div SizeofFloat

\* the int a size_t value converts to, in an int of WorkIntBits bits
WorkInt(x) == ((x + 2^(WorkIntBits - 1)) % 2^WorkIntBits) - 2^(WorkIntBits - 1)

\* return (n + 31) & ~31
ggml_up32(n) == ((n + 31) \div 32) * 32

WorkOps == {"MUL_MAT", "CONV_1D_1S", "CONV_1D_2S"}

\* the nodes of the model: a MUL_MAT of F32 matrices whose src0 is
\* contiguous or the ggml_transpose of a contiguous matrix, and a CONV_1D of
\* an F16 kernel with an F32 source (ne01 == ne11)
WorkNodes ==
    [op : {"MUL_MAT"}, ne00 : 1 .. MaxK, ne01 : 1 .. MaxWorkRows,
     ne02 : {1}, ne10 : {0}, ne11 : 1 .. MaxWorkCols,
     transposed : BOOLEAN, nth : 1 .. MaxThreads, ndebug : BOOLEAN]
    \cup
    [op : {"CONV_1D_1S", "CONV_1D_2S"}, ne00 : {1, 3}, ne01 : {1, 32},
     ne02 : 1 .. MaxConvRows, ne10 : 1 .. MaxConvLen, ne11 : {0},
     transposed : {FALSE}, nth : 1 .. MaxThreads, ndebug : BOOLEAN]

\* src1->ne[0] of a MUL_MAT is src0->ne[0]; src1->ne[1] of a CONV_1D is
\* src0->ne[1]
Ne10(in) == IF in.op = "MUL_MAT" THEN in.ne00 ELSE in.ne10

Ne11(in) == IF in.op = "MUL_MAT" THEN in.ne11 ELSE in.ne01

\* src0->nb[0] and src0->nb[1]: ggml_transpose swaps the strides of a
\* contiguous matrix
Src0Nb(in) ==
    IF in.transposed
    THEN <<SizeofFloat * in.ne01, SizeofFloat>>
    ELSE <<SizeofFloat, SizeofFloat * in.ne00>>

\* the kernel's test for the column-parallel path: !(nb01 >= nb00)
ColumnParallel(in) == ~(Src0Nb(in)[2] >= Src0Nb(in)[1])

\* ne = ne0*ne1*ne2*ne3 of the MUL_MAT result
DstNe(in) == in.ne01 * Ne11(in)

\* size_t cur of the node in the switch over node->op
WorkCur(in) ==
    IF in.op = "MUL_MAT"
    THEN IF Src0Nb(in)[2] < Src0Nb(in)[1]
         THEN (SizeofFloat * DstNe(in)) * in.nth
         ELSE 0
    ELSE SizeofHalf * (in.ne00 * ggml_up32(in.ne01) * in.ne02
                       + (2 * (in.ne00 \div 2) + Ne10(in)) * Ne11(in))

\* cgraph->work_size = work_size + CACHE_LINE_SIZE*(n_threads - 1)
WorkSize(in) == WorkCur(in) + CACHE_LINE_SIZE * (in.nth - 1)

\* int ne0 of ggml_new_tensor_1d(ctx, GGML_TYPE_I8, cgraph->work_size)
WorkNe0(in) == WorkInt(WorkSize(in))

\* a row partition dr = (nr + nth - 1)/nth; ir0 = dr*ith; ir1 = MIN(ir0 + dr, nr)
WorkChunk(nr, nth, ith) ==
    LET dr  == (nr + nth - 1) \div nth
        ir0 == dr * ith
        ir1 == MIN(ir0 + dr, nr)
    IN  {i \in 0 .. (nr - 1) : ir0 <= i /\ i < ir1}

\* const int wo = (ne + CACHE_LINE_SIZE_F32)*ith
WorkOffset(in, ith) == WorkInt((DstNe(in) + CACHE_LINE_SIZE_F32) * ith)

\* COMPUTE of the column-parallel MUL_MAT: the float elements of wdata that
\* ggml_vec_mad_f32(ne01, wdata + wo + i1*ne0, ...) writes
MulMatWrites(in, ith) ==
    IF WorkChunk(Ne10(in), in.nth, ith) = {}
    THEN {}
    ELSE {WorkOffset(in, ith) + i1 * in.ne01 + r :
              i1 \in 0 .. (Ne11(in) - 1), r \in 0 .. (in.ne01 - 1)}

\* assert(sizeof(float)*(wo + ... + i1*ne0 + ne01) <= params->wsize); the
\* left side is a size_t, so a negative int is a huge value
MulMatSizeAsserted(in, ith, wsize) ==
    \/ WorkChunk(Ne10(in), in.nth, ith) = {}
    \/ \A i1 \in 0 .. (Ne11(in) - 1) :
           LET e == WorkOffset(in, ith) + i1 * in.ne01 + in.ne01
           IN  e >= 0 /\ SizeofFloat * e <= wsize

\* INIT of CONV_1D: the ggml_fp16_t elements of wdata that the copies of
\* the kernel (src0) and of the source (src1) write
ConvInitWrites(in) ==
    LET ew0 == ggml_up32(in.ne01)
        nh  == in.ne00 \div 2
    IN  {i02 * ew0 * in.ne00 + i00 * ew0 + i01 :
             i02 \in 0 .. (in.ne02 - 1), i00 \in 0 .. (in.ne00 - 1),
             i01 \in 0 .. (in.ne01 - 1)}
        \cup
        {in.ne02 * ew0 * in.ne00 + (i10 + nh) * ew0 + i11 :
             i10 \in 0 .. (Ne10(in) - 1), i11 \in 0 .. (Ne11(in) - 1)}

\* for (int i0 = 0; i0 < ne10; ++i0) of CONV_1D_1S, i0 += 2 of CONV_1D_2S
ConvSteps(in) ==
    {i0 \in 0 .. (Ne10(in) - 1) : in.op = "CONV_1D_1S" \/ i0 % 2 = 0}

\* COMPUTE of CONV_1D: the elements the two operands of
\* ggml_vec_dot_f16(ew0, &v, wdata + i1*ew0*ne00 + (nh + k)*ew0,
\*                  wdata + ne02*ew0*ne00 + (i0 + nh + k)*ew0) cover
ConvReads(in, ith) ==
    LET ew0 == ggml_up32(in.ne01)
        nh  == in.ne00 \div 2
    IN  UNION {{i1 * ew0 * in.ne00 + (nh + k) * ew0 + e : e \in 0 .. (ew0 - 1)}
               \cup
               {in.ne02 * ew0 * in.ne00 + (i0 + nh + k) * ew0 + e :
                    e \in 0 .. (ew0 - 1)} :
               i1 \in WorkChunk(in.ne02, in.nth, ith), i0 \in ConvSteps(in),
               k \in (-nh) .. nh}

InitWork ==
    /\ mode = "work"
    /\ IdleSched
    /\ IdlePart
    /\ IdleMulMat
    /\ IdleCtx
    /\ IdleArena
    /\ IdleGraph
    /\ IdleAd
    /\ IdleKern
    /\ IdleOpt
    /\ IdleLs
    /\ IdleBw
    /\ wb_in \in WorkNodes
    /\ wb_cur = 0
    /\ wb_wsize = 0
    /\ wb_res = "none"
    /\ wb_wr = [t \in 0 .. (MaxThreads - 1) |-> {}]
    /\ wb_rd = [t \in 0 .. (MaxThreads - 1) |-> {}]
    /\ wb_ran = {}

\* ggml_graph_compute, initialize tasks + work buffer: the work tensor gets
\* ne0 bytes
WorkPlan ==
    /\ wb_res = "none"
    /\ WorkNe0(wb_in) >= 0
    /\ wb_cur' = WorkCur(wb_in)
    /\ wb_wsize' = IF WorkCur(wb_in) > 0 THEN WorkNe0(wb_in) ELSE 0
    /\ wb_res' = "ok"
    /\ UNCHANGED <<wb_in, wb_wr, wb_rd, wb_ran>>

\* the work size does not fit an int and ne0 is negative: the allocation
\* fails an assertion, or it goes through and no byte of the arena is
\* reserved for the work tensor
WorkPlanNegative ==
    /\ wb_res = "none"
    /\ WorkCur(wb_in) > 0
    /\ WorkNe0(wb_in) < 0
    /\ wb_cur' = WorkCur(wb_in)
    /\ wb_wsize' = 0
    /\ wb_res' \in {"ok", "abort"}
    /\ UNCHANGED <<wb_in, wb_wr, wb_rd, wb_ran>>

\* ggml_compute_forward(&params, node) with GGML_TASK_INIT, on main
WorkKernelInit ==
    /\ wb_res = "ok"
    /\ wb_ran = {}
    /\ wb_wr' = IF wb_in.op = "MUL_MAT"
                THEN wb_wr
                ELSE [wb_wr EXCEPT ![0] = @ \cup ConvInitWrites(wb_in)]
    /\ wb_ran' = {<<"INIT", 0>>}
    /\ UNCHANGED <<wb_in, wb_cur, wb_wsize, wb_res, wb_rd>>

\* ggml_compute_forward(&params, node) with GGML_TASK_COMPUTE, thread ith
WorkKernelCompute(ith) ==
    /\ wb_res = "ok"
    /\ <<"INIT", 0>> \in wb_ran
    /\ ith \in 0 .. (wb_in.nth - 1)
    /\ <<"COMPUTE", ith>> \notin wb_ran
    /\ IF wb_in.op = "MUL_MAT"
       THEN IF ColumnParallel(wb_in)
            THEN IF wb_in.ndebug \/ MulMatSizeAsserted(wb_in, ith, wb_wsize)
                 THEN /\ wb_wr' = [wb_wr EXCEPT
                                      ![ith] = @ \cup MulMatWrites(wb_in, ith)]
                      /\ wb_res' = wb_res
                 ELSE /\ wb_wr' = wb_wr
                      /\ wb_res' = "abort"
            ELSE UNCHANGED <<wb_wr, wb_res>>
       ELSE UNCHANGED <<wb_wr, wb_res>>
    /\ wb_rd' = IF wb_in.op = "MUL_MAT"
                THEN wb_rd
                ELSE [wb_rd EXCEPT ![ith] = @ \cup ConvReads(wb_in, ith)]
    /\ wb_ran' = wb_ran \cup {<<"COMPUTE", ith>>}
    /\ UNCHANGED <<wb_in, wb_cur, wb_wsize>>

NextWork ==
    /\ mode = "work"
    /\ UNCHANGED <<mode, schedVars, partVars, mmVars, ctxVars, arenaVars,
                 graphVars, adVars, kernVars, optVars, lsVars, bwVars>>
    /\ \/ WorkPlan
       \/ WorkPlanNegative
       \/ WorkKernelInit
       \/ \E ith \in 0 .. (MaxThreads - 1) : WorkKernelCompute(ith)

SpecWork == InitWork /\ [][NextWork]_vars

\* ------------------------------------------------------------------------
\* ggml_graph_compute / ggml_graph_compute_thread
\* ------------------------------------------------------------------------
Phases == {"INIT", "COMPUTE", "FINALIZE"}

\* ops of the model's graphs: one scheduled on every thread, one on main only
GraphOps == {"ADD", "SUB"}

Workers == 1 .. (MaxThreads - 1)

Threads == 0 .. (MaxThreads - 1)

NodeIds == 1 .. MaxGraphNodes

\* cgraph->n_threads <= 0 selects 8 threads
EffectiveThreads(n) == IF n <= 0 THEN 8 ELSE n

\* the switch over node->op that sets node->n_tasks
NTasks(op, n) ==
    CASE op = "ADD" -> n
      [] op = "GELU" -> n
      [] op = "NORM" -> n
      [] op = "MUL_MAT" -> n
      [] op = "SCALE" -> n
      [] op = "SOFT_MAX" -> n
      [] op = "CONV_1D_1S" -> n
      [] op = "CONV_1D_2S" -> n
      [] op = "FLASH_ATTN" -> n
      [] op = "FLASH_FF" -> n
      [] OTHER -> 1

\* atomic_fetch_add(&n_ready, 1) == n_threads - 1
LastArrivalEarly(old, n) == old = n - 2

LastArrivalNever(old, n) == old = n

LastArrival(old, n) == old = n - 1

\* a launch that goes on while one worker is still inside the barrier
LaunchWaitAllButOne(r) == r > 1

\* while (atomic_load(&n_ready) > 0) before has_work = true
LaunchWaitNone(r) == FALSE

LaunchWait(r) == r > 0

\* while (atomic_load(&n_ready) != 0) after a phase
PhaseWaitNone(r) == FALSE

PhaseWait(r) == r /= 0

NoCalls == [t \in Threads |-> [i \in NodeIds |-> [p \in Phases |-> 0]]]

InitSched ==
    /\ mode = "sched"
    /\ IdlePart
    /\ IdleMulMat
    /\ IdleCtx
    /\ IdleArena
    /\ IdleGraph
    /\ IdleAd
    /\ IdleKern
    /\ IdleOpt
    /\ IdleWork
    /\ IdleLs
    /\ IdleBw
    /\ \E n \in 1 .. MaxThreads : n_threads = EffectiveThreads(n)
    /\ \E len \in 1 .. MaxGraphNodes : nodes \in [1 .. len -> GraphOps]
    /\ n_tasks = [i \in DOMAIN nodes |-> 0]
    /\ n_ready = 0
    /\ has_work = FALSE
    /\ stop = FALSE
    /\ mpc = "create"
    /\ mphase = "INIT"
    /\ mi = 1
    /\ mj = 1
    /\ wpc = [j \in Workers |-> "none"]
    /\ wnode = [j \in Workers |-> 0]
    /\ wparams = [j \in Workers |-> "COMPUTE"]
    /\ running = [t \in Threads |-> <<>>]
    /\ ncalls = NoCalls
    /\ posts = [i \in NodeIds |-> 0]

\* a main thread that hands every node to the pool, whatever its n_tasks
AfterKernelAlways ==
    IF mphase = "INIT" THEN "l_add" ELSE "w_add"

\* a main thread that never hands a node to the pool
AfterKernelSerial ==
    IF mphase = "INIT" THEN "kern_begin" ELSE "phase_end"

\* the position after a kernel call of the main thread returned
AfterKernel ==
    IF mphase = "INIT"
    THEN IF n_tasks[mi] > 1 THEN "l_add" ELSE "kern_begin"
    ELSE IF n_tasks[mi] > 1 THEN "w_add" ELSE "phase_end"

\* create thread pool: has_work = true, then one pthread_create per worker
MainCreate ==
    /\ mpc = "create"
    /\ IF n_threads > 1
       THEN /\ has_work' = TRUE
            /\ mpc' = "spawn"
       ELSE /\ has_work' = has_work
            /\ mpc' = "tasks"
    /\ mj' = 1
    /\ UNCHANGED <<n_threads, nodes, n_tasks, n_ready, stop, mphase, mi, wpc,
                   wnode, wparams, running, ncalls, posts>>

MainSpawn ==
    /\ mpc = "spawn"
    /\ IF mj <= n_threads - 1
       THEN /\ wpc' = [wpc EXCEPT ![mj] = "add"]
            /\ wnode' = [wnode EXCEPT ![mj] = 0]
            /\ wparams' = [wparams EXCEPT ![mj] = "COMPUTE"]
            /\ mj' = mj + 1
            /\ mpc' = mpc
       ELSE /\ mpc' = "tasks"
            /\ UNCHANGED <<wpc, wnode, wparams, mj>>
    /\ UNCHANGED <<n_threads, nodes, n_tasks, n_ready, has_work, stop, mphase,
                   mi, running, ncalls, posts>>

\* initialize tasks: node->n_tasks for every node
MainTasks ==
    /\ mpc = "tasks"
    /\ n_tasks' = [i \in DOMAIN nodes |-> NTasks(nodes[i], n_threads)]
    /\ mi' = 1
    /\ mphase' = "INIT"
    /\ mpc' = "kern_begin"
    /\ UNCHANGED <<n_threads, nodes, n_ready, has_work, stop, mj, wpc, wnode,
                   wparams, running, ncalls, posts>>

\* ggml_compute_forward(&params, node) on the main thread: call
MainKernelBegin ==
    /\ mpc = "kern_begin"
    /\ running' = [running EXCEPT ![0] = <<mi, mphase>>]
    /\ mpc' = "kern_end"
    /\ UNCHANGED <<n_threads, nodes, n_tasks, n_ready, has_work, stop, mphase,
                   mi, mj, wpc, wnode, wparams, ncalls, posts>>

\* ggml_compute_forward(&params, node) on the main thread: return
MainKernelEnd ==
    /\ mpc = "kern_end"
    /\ running' = [running EXCEPT ![0] = <<>>]
    /\ ncalls' = [ncalls EXCEPT ![0][mi][mphase] = @ + 1]
    /\ mpc' = AfterKernel
    /\ mphase' = IF mphase = "INIT" THEN "COMPUTE" ELSE mphase
    /\ UNCHANGED <<n_threads, nodes, n_tasks, n_ready, has_work, stop, mi, mj,
                   wpc, wnode, wparams, posts>>

\* launch: if (atomic_fetch_add(&n_ready, 1) == n_threads - 1) has_work = false
MainLaunchAdd ==
    /\ mpc = "l_add"
    /\ n_ready' = n_ready + 1
    /\ mpc' = IF LastArrival(n_ready, n_threads) THEN "l_store" ELSE "l_spin"
    /\ UNCHANGED <<n_threads, nodes, n_tasks, has_work, stop, mphase, mi, mj,
                   wpc, wnode, wparams, running, ncalls, posts>>

MainLaunchStore ==
    /\ mpc = "l_store"
    /\ has_work' = FALSE
    /\ mpc' = "l_spin"
    /\ UNCHANGED <<n_threads, nodes, n_tasks, n_ready, stop, mphase, mi, mj,
                   wpc, wnode, wparams, running, ncalls, posts>>

\* launch: while (atomic_load(&has_work)) {}
MainLaunchSpin ==
    /\ mpc = "l_spin"
    /\ ~has_work
    /\ mpc' = "l_write"
    /\ mj' = 1
    /\ UNCHANGED <<n_threads, nodes, n_tasks, n_ready, has_work, stop, mphase,
                   mi, wpc, wnode, wparams, running, ncalls, posts>>

\* launch: workers[j].params = {...}; workers[j].node = node
MainLaunchWrite ==
    /\ mpc = "l_write"
    /\ IF mj <= n_threads - 1
       THEN /\ wparams' = [wparams EXCEPT ![mj] = mphase]
            /\ wnode' = [wnode EXCEPT ![mj] = mi]
            /\ mj' = mj + 1
            /\ mpc' = mpc
       ELSE /\ mpc' = "l_sub"
            /\ UNCHANGED <<wparams, wnode, mj>>
    /\ UNCHANGED <<n_threads, nodes, n_tasks, n_ready, has_work, stop, mphase,
                   mi, wpc, running, ncalls, posts>>

MainLaunchSub ==
    /\ mpc = "l_sub"
    /\ n_ready' = n_ready - 1
    /\ mpc' = "l_wait"
    /\ UNCHANGED <<n_threads, nodes, n_tasks, has_work, stop, mphase, mi, mj,
                   wpc, wnode, wparams, running, ncalls, posts>>

\* launch: while (atomic_load(&n_ready) > 0) {}
MainLaunchWait ==
    /\ mpc = "l_wait"
    /\ ~LaunchWait(n_ready)
    /\ mpc' = "l_post"
    /\ UNCHANGED <<n_threads, nodes, n_tasks, n_ready, has_work, stop, mphase,
                   mi, mj, wpc, wnode, wparams, running, ncalls, posts>>

\* launch: atomic_store(&has_work, true)
MainLaunchPost ==
    /\ mpc = "l_post"
    /\ has_work' = TRUE
    /\ posts' = [posts EXCEPT ![mi] = @ + 1]
    /\ mpc' = "kern_begin"
    /\ UNCHANGED <<n_threads, nodes, n_tasks, n_ready, stop, mphase, mi, mj,
                   wpc, wnode, wparams, running, ncalls>>

\* wait for thread pool: fetch_add and last-arrival detection
MainWaitAdd ==
    /\ mpc = "w_add"
    /\ n_ready' = n_ready + 1
    /\ mpc' = IF LastArrival(n_ready, n_threads) THEN "w_store" ELSE "w_spin"
    /\ UNCHANGED <<n_threads, nodes, n_tasks, has_work, stop, mphase, mi, mj,
                   wpc, wnode, wparams, running, ncalls, posts>>

MainWaitStore ==
    /\ mpc = "w_store"
    /\ has_work' = FALSE
    /\ mpc' = "w_spin"
    /\ UNCHANGED <<n_threads, nodes, n_tasks, n_ready, stop, mphase, mi, mj,
                   wpc, wnode, wparams, running, ncalls, posts>>

MainWaitSpin ==
    /\ mpc = "w_spin"
    /\ ~has_work
    /\ mpc' = "w_sub"
    /\ UNCHANGED <<n_threads, nodes, n_tasks, n_ready, has_work, stop, mphase,
                   mi, mj, wpc, wnode, wparams, running, ncalls, posts>>

MainWaitSub ==
    /\ mpc = "w_sub"
    /\ n_ready' = n_ready - 1
    /\ mpc' = "w_wait"
    /\ UNCHANGED <<n_threads, nodes, n_tasks, has_work, stop, mphase, mi, mj,
                   wpc, wnode, wparams, running, ncalls, posts>>

\* wait for thread pool: while (atomic_load(&n_ready) != 0) {}
MainWaitWait ==
    /\ mpc = "w_wait"
    /\ ~PhaseWait(n_ready)
    /\ mpc' = "phase_end"
    /\ UNCHANGED <<n_threads, nodes, n_tasks, n_ready, has_work, stop, mphase,
                   mi, mj, wpc, wnode, wparams, running, ncalls, posts>>

\* after COMPUTE go on with FINALIZE, after FINALIZE with the next node
MainPhaseEnd ==
    /\ mpc = "phase_end"
    /\ IF mphase = "COMPUTE"
       THEN /\ mphase' = "FINALIZE"
            /\ mpc' = IF n_tasks[mi] > 1 THEN "l_add" ELSE "kern_begin"
            /\ mi' = mi
       ELSE IF mi < Len(nodes)
            THEN /\ mphase' = "INIT"
                 /\ mpc' = "kern_begin"
                 /\ mi' = mi + 1
            ELSE /\ mphase' = mphase
                 /\ mpc' = IF n_threads > 1 THEN "j_stop" ELSE "done"
                 /\ mi' = mi
    /\ UNCHANGED <<n_threads, nodes, n_tasks, n_ready, has_work, stop, mj, wpc,
                   wnode, wparams, running, ncalls, posts>>

\* a join that wakes the workers before it has set stop
MainStopWakesFirst ==
    /\ mpc = "j_stop"
    /\ has_work' = TRUE
    /\ mpc' = "j_work"
    /\ UNCHANGED <<n_threads, nodes, n_tasks, n_ready, stop, mphase, mi, mj,
                   wpc, wnode, wparams, running, ncalls, posts>>

\* join thread pool: atomic_store(&stop, true)
MainStop ==
    /\ mpc = "j_stop"
    /\ stop' = TRUE
    /\ mpc' = "j_work"
    /\ UNCHANGED <<n_threads, nodes, n_tasks, n_ready, has_work, mphase, mi, mj,
                   wpc, wnode, wparams, running, ncalls, posts>>

\* join thread pool: atomic_store(&has_work, true)
MainStopWork ==
    /\ mpc = "j_work"
    /\ has_work' = TRUE
    /\ mj' = 1
    /\ mpc' = "j_join"
    /\ UNCHANGED <<n_threads, nodes, n_tasks, n_ready, stop, mphase, mi, wpc,
                   wnode, wparams, running, ncalls, posts>>

\* join thread pool: pthread_join(workers[j].thrd) for every worker
MainJoin ==
    /\ mpc = "j_join"
    /\ IF mj <= n_threads - 1
       THEN /\ wpc[mj] \in {"ret", "broke"}
            /\ mj' = mj + 1
            /\ mpc' = mpc
       ELSE /\ mpc' = "done"
            /\ mj' = mj
    /\ UNCHANGED <<n_threads, nodes, n_tasks, n_ready, has_work, stop, mphase,
                   mi, wpc, wnode, wparams, running, ncalls, posts>>

MainStep ==
    \/ MainCreate \/ MainSpawn \/ MainTasks \/ MainKernelBegin \/ MainKernelEnd
    \/ MainLaunchAdd \/ MainLaunchStore \/ MainLaunchSpin \/ MainLaunchWrite
    \/ MainLaunchSub \/ MainLaunchWait \/ MainLaunchPost
    \/ MainWaitAdd \/ MainWaitStore \/ MainWaitSpin \/ MainWaitSub
    \/ MainWaitWait \/ MainPhaseEnd \/ MainStop \/ MainStopWork \/ MainJoin

\* worker: if (atomic_fetch_add(&n_ready, 1) == n_threads - 1) has_work = false
WorkerAdd(j) ==
    /\ wpc[j] = "add"
    /\ n_ready' = n_ready + 1
    /\ wpc' = [wpc EXCEPT ![j] =
                  IF LastArrival(n_ready, n_threads) THEN "store" ELSE "spin"]
    /\ UNCHANGED <<n_threads, nodes, n_tasks, has_work, stop, mpc, mphase, mi,
                   mj, wnode, wparams, running, ncalls, posts>>

WorkerStore(j) ==
    /\ wpc[j] = "store"
    /\ has_work' = FALSE
    /\ wpc' = [wpc EXCEPT ![j] = "sub"]
    /\ UNCHANGED <<n_threads, nodes, n_tasks, n_ready, stop, mpc, mphase, mi,
                   mj, wnode, wparams, running, ncalls, posts>>

\* worker: while (atomic_load(&has_work)) { if (atomic_load(&stop)) return 0; }
WorkerSpin(j) ==
    /\ wpc[j] = "spin"
    /\ wpc' = [wpc EXCEPT ![j] = IF has_work THEN "spin_stop" ELSE "sub"]
    /\ UNCHANGED <<n_threads, nodes, n_tasks, n_ready, has_work, stop, mpc,
                   mphase, mi, mj, wnode, wparams, running, ncalls, posts>>

WorkerSpinStop(j) ==
    /\ wpc[j] = "spin_stop"
    /\ wpc' = [wpc EXCEPT ![j] = IF stop THEN "ret" ELSE "spin"]
    /\ UNCHANGED <<n_threads, nodes, n_tasks, n_ready, has_work, stop, mpc,
                   mphase, mi, mj, wnode, wparams, running, ncalls, posts>>

\* worker: atomic_fetch_sub(&n_ready, 1)
WorkerSub(j) ==
    /\ wpc[j] = "sub"
    /\ n_ready' = n_ready - 1
    /\ wpc' = [wpc EXCEPT ![j] = "wait"]
    /\ UNCHANGED <<n_threads, nodes, n_tasks, has_work, stop, mpc, mphase, mi,
                   mj, wnode, wparams, running, ncalls, posts>>

\* worker: while (!atomic_load(&has_work)) { if (atomic_load(&stop)) return 0; }
WorkerWait(j) ==
    /\ wpc[j] = "wait"
    /\ wpc' = [wpc EXCEPT ![j] = IF has_work THEN "chk_stop" ELSE "wait_stop"]
    /\ UNCHANGED <<n_threads, nodes, n_tasks, n_ready, has_work, stop, mpc,
                   mphase, mi, mj, wnode, wparams, running, ncalls, posts>>

WorkerWaitStop(j) ==
    /\ wpc[j] = "wait_stop"
    /\ wpc' = [wpc EXCEPT ![j] = IF stop THEN "ret" ELSE "wait"]
    /\ UNCHANGED <<n_threads, nodes, n_tasks, n_ready, has_work, stop, mpc,
                   mphase, mi, mj, wnode, wparams, running, ncalls, posts>>

\* worker: if (atomic_load(&stop)) break
WorkerCheckStop(j) ==
    /\ wpc[j] = "chk_stop"
    /\ wpc' = [wpc EXCEPT ![j] = IF stop THEN "ret" ELSE "node"]
    /\ UNCHANGED <<n_threads, nodes, n_tasks, n_ready, has_work, stop, mpc,
                   mphase, mi, mj, wnode, wparams, running, ncalls, posts>>

\* worker: if (state->node) ggml_compute_forward(...) else break
WorkerKernelBegin(j) ==
    /\ wpc[j] = "node"
    /\ IF wnode[j] /= 0
       THEN /\ running' = [running EXCEPT ![j] = <<wnode[j], wparams[j]>>]
            /\ wpc' = [wpc EXCEPT ![j] = "kern_end"]
       ELSE /\ running' = running
            /\ wpc' = [wpc EXCEPT ![j] = "broke"]
    /\ UNCHANGED <<n_threads, nodes, n_tasks, n_ready, has_work, stop, mpc,
                   mphase, mi, mj, wnode, wparams, ncalls, posts>>

\* worker: the kernel call returns; state->node = NULL
WorkerKernelEnd(j) ==
    /\ wpc[j] = "kern_end"
    /\ ncalls' = [ncalls EXCEPT ![j][running[j][1]][running[j][2]] = @ + 1]
    /\ running' = [running EXCEPT ![j] = <<>>]
    /\ wnode' = [wnode EXCEPT ![j] = 0]
    /\ wpc' = [wpc EXCEPT ![j] = "add"]
    /\ UNCHANGED <<n_threads, nodes, n_tasks, n_ready, has_work, stop, mpc,
                   mphase, mi, mj, wparams, posts>>

WorkerStep(j) ==
    \/ WorkerAdd(j) \/ WorkerStore(j) \/ WorkerSpin(j) \/ WorkerSpinStop(j)
    \/ WorkerSub(j) \/ WorkerWait(j) \/ WorkerWaitStop(j)
    \/ WorkerCheckStop(j) \/ WorkerKernelBegin(j) \/ WorkerKernelEnd(j)

NextSched ==
    /\ mode = "sched"
    /\ UNCHANGED <<mode, partVars, mmVars, ctxVars, arenaVars,
                 graphVars, adVars, kernVars, optVars, workVars,
                 lsVars, bwVars>>
    /\ \/ MainStep
       \/ \E j \in Workers : WorkerStep(j)

SpecSched == InitSched /\ [][NextSched]_vars

\* every thread is scheduled fairly and every kernel call returns
FairSched ==
    /\ SpecSched
    /\ WF_vars(MainStep /\ UNCHANGED <<mode, partVars, mmVars, ctxVars, arenaVars,
                 graphVars, adVars, kernVars, optVars, workVars,
                 lsVars, bwVars>>)
    /\ \A j \in Workers : WF_vars(WorkerStep(j) /\ UNCHANGED <<mode, partVars, mmVars, ctxVars, arenaVars,
                 graphVars, adVars, kernVars, optVars, workVars,
                 lsVars, bwVars>>)

\* ------------------------------------------------------------------------
\* Properties of the graph executor
\* ------------------------------------------------------------------------
\* the threads that take part in phase p of nodes[i]
Participants(i, p) ==
    IF p /= "INIT" /\ NTasks(nodes[i], n_threads) > 1
    THEN 0 .. (n_threads - 1)
    ELSE {0}

Started(t, i, p) == running[t] = <<i, p>> \/ ncalls[t][i][p] > 0

Finished(t, i, p) == ncalls[t][i][p] > 0

\* C1: no thread starts any phase of nodes[i+1] before every thread that
\* takes part in nodes[i] has finished the FINALIZE phase of nodes[i].
C1_NodeOrder ==
    \A i \in DOMAIN nodes : \A t \in Threads : \A p \in Phases :
        (i + 1 \in DOMAIN nodes /\ Started(t, i + 1, p)) =>
            \A u \in Participants(i, "FINALIZE") : Finished(u, i, "FINALIZE")

\* a worker is inside a kernel of nodes[2] after a multi-threaded nodes[1]
C1_Witness ==
    /\ Len(nodes) >= 2
    /\ NTasks(nodes[1], n_threads) > 1
    /\ \E j \in Workers : running[j] # <<>> /\ running[j][1] = 2

\* C2: for every node INIT has returned before any thread starts COMPUTE,
\* and every thread's COMPUTE has returned before any thread starts FINALIZE.
C2_PhaseOrder ==
    \A i \in DOMAIN nodes : \A t \in Threads :
        /\ Started(t, i, "COMPUTE") => Finished(0, i, "INIT")
        /\ Started(t, i, "FINALIZE") =>
               \A u \in Participants(i, "COMPUTE") : Finished(u, i, "COMPUTE")

\* a worker is inside FINALIZE of a node
C2_Witness ==
    \E j \in Workers : running[j] # <<>> /\ running[j][2] = "FINALIZE"

AllJoined ==
    /\ mpc = "done"
    /\ n_threads > 1 => stop
    /\ \A j \in Workers : j <= n_threads - 1 => wpc[j] \in {"ret", "broke"}
    /\ \A i \in DOMAIN nodes : \A p \in Phases : Finished(0, i, p)

\* C3: under fair scheduling ggml_graph_compute eventually finishes all
\* nodes, sets stop and joins every worker.
C3_Completes == <>AllJoined

\* the run ended with three threads and a multi-threaded node
C3_Witness ==
    /\ AllJoined
    /\ n_threads = 3
    /\ \E i \in DOMAIN nodes : n_tasks[i] > 1

\* the worker threads of the pool that was created for this run
PoolWorkers == {j \in Workers : j <= n_threads - 1}

\* the nodes whose n_tasks the switch over node->op sets above 1
ParallelNodes == {i \in DOMAIN nodes : NTasks(nodes[i], n_threads) > 1}

\* the original statement of C20: when the run has ended, main has posted
\* every node with n_tasks > 1 three times and every worker has run the
\* kernel of that node in INIT, COMPUTE and FINALIZE.
C20_ThreeHandOffs ==
    AllJoined =>
        \A i \in ParallelNodes :
            /\ posts[i] = 3
            /\ \A j \in PoolWorkers : \A p \in Phases : ncalls[j][i][p] >= 1

\* C20: for a node with n_tasks > 1 the hand-off to the worker pool runs
\* twice, once for COMPUTE and once for FINALIZE: INIT is run by the main
\* thread alone and no worker ever runs an INIT kernel; main posts the node
\* once before its own COMPUTE call and once more before its own FINALIZE
\* call, and when the run has ended main has run each of the three phases
\* once and every worker has run COMPUTE and FINALIZE once.
C20_TwoHandOffs ==
    /\ \A i \in DOMAIN nodes : \A j \in Workers :
           /\ ncalls[j][i]["INIT"] = 0
           /\ ~(running[j] = <<i, "INIT">>)
    /\ \A i \in DOMAIN nodes : i \notin ParallelNodes => posts[i] = 0
    /\ \A i \in ParallelNodes :
           /\ posts[i] <= 2
           /\ ~Finished(0, i, "INIT") => posts[i] = 0
           /\ Started(0, i, "COMPUTE") => posts[i] >= 1
           /\ ~Finished(0, i, "COMPUTE") => posts[i] <= 1
           /\ Started(0, i, "FINALIZE") => posts[i] = 2
    /\ AllJoined =>
           \A i \in ParallelNodes :
               /\ \A p \in Phases : ncalls[0][i][p] = 1
               /\ \A j \in PoolWorkers :
                      /\ ncalls[j][i]["COMPUTE"] = 1
                      /\ ncalls[j][i]["FINALIZE"] = 1

\* a run of two multi-threaded nodes ended and every worker of a pool of two
\* ran COMPUTE and FINALIZE of the second node
C20_Witness ==
    /\ AllJoined
    /\ Len(nodes) = 2
    /\ ParallelNodes = {1, 2}
    /\ PoolWorkers = {1, 2}
    /\ \A j \in PoolWorkers :
           ncalls[j][2]["COMPUTE"] = 1 /\ ncalls[j][2]["FINALIZE"] = 1

\* the main thread is inside the node loop, at a node with n_tasks == 1
OnSerialNode ==
    /\ mpc \notin {"create", "spawn", "tasks", "j_stop", "j_work", "j_join",
                   "done"}
    /\ n_tasks[mi] = 1

\* C21: while the main thread executes a node with n_tasks == 1 no worker is
\* inside a kernel or starts one, no worker's params or node handle is
\* written, a step of the main thread leaves has_work and n_ready as they
\* are, the kernel runs on the main thread in the phase order INIT, COMPUTE,
\* FINALIZE, and when the node is left each phase has run once on main and
\* never on a worker.
C21_SerialNode ==
    [][OnSerialNode =>
           /\ \A j \in Workers : running[j] = <<>> /\ running'[j] = <<>>
           /\ wparams' = wparams
           /\ wnode' = wnode
           /\ (mpc' /= mpc \/ mi' /= mi) =>
                  /\ has_work' = has_work
                  /\ n_ready' = n_ready
                  /\ mpc' \in {"kern_begin", "kern_end", "phase_end",
                               "j_stop", "done"}
           /\ \A j \in Workers : \A p \in Phases : ncalls[j][mi][p] = 0
           /\ (mi' /= mi \/ mpc' \in {"j_stop", "done"}) =>
                  \A p \in Phases : ncalls[0][mi][p] = 1
      ]_vars

\* the main thread is inside COMPUTE of a serial second node, in a pool of
\* three threads, after a first node that ran on every thread
C21_Witness ==
    /\ n_threads = 3
    /\ mi = 2
    /\ OnSerialNode
    /\ n_tasks[1] = 3
    /\ running[0] = <<2, "COMPUTE">>
    /\ \A j \in PoolWorkers : ncalls[j][1]["FINALIZE"] = 1

\* the positions at which a worker reads its params and node handle
WorkerReads(j) == wpc[j] \in {"chk_stop", "node", "kern_end"}

\* C22: when the main thread is about to post a phase (has_work = true with
\* stop false), n_ready is 0 and every worker of the pool waits for work,
\* outside any kernel, with its node handle and params already written for
\* that phase, which it has not run yet (and, for FINALIZE, having run
\* COMPUTE once); while main writes params and node handles no worker is at
\* a position that reads them; no worker runs a phase of a node twice, and
\* only the workers 1 .. n_threads - 1 run kernels.
C22_PostAfterQuiescence ==
    /\ mpc = "l_post" =>
           /\ ~stop
           /\ ~has_work
           /\ n_ready = 0
           /\ \A j \in PoolWorkers :
                  /\ wpc[j] \in {"wait", "wait_stop"}
                  /\ running[j] = <<>>
                  /\ wnode[j] = mi
                  /\ wparams[j] = mphase
                  /\ ncalls[j][mi][mphase] = 0
                  /\ mphase = "FINALIZE" => ncalls[j][mi]["COMPUTE"] = 1
    /\ mpc = "l_write" => \A j \in PoolWorkers : ~WorkerReads(j)
    /\ \A j \in Workers : \A i \in DOMAIN nodes : \A p \in Phases :
           /\ ncalls[j][i][p] <= 1
           /\ j \notin PoolWorkers => ncalls[j][i][p] = 0 /\ running[j] = <<>>

\* main is about to post FINALIZE of the second node to a pool of two workers
C22_Witness ==
    /\ mpc = "l_post"
    /\ mphase = "FINALIZE"
    /\ mi = 2
    /\ PoolWorkers = {1, 2}
    /\ \A j \in PoolWorkers : wnode[j] = 2 /\ wparams[j] = "FINALIZE"

\* C27: a worker has left its loop only if stop is set; a worker that got
\* past the wait for work and the stop check finds its node handle non-null,
\* so the 'else break' exit is never taken; and once stop is set no worker
\* starts a kernel call.
C27_WorkersStayUntilStop ==
    [][/\ \A j \in Workers :
              /\ wpc[j] \in {"ret", "broke"} => stop
              /\ wpc'[j] \in {"ret", "broke"} => stop'
              /\ wpc[j] = "node" => wnode[j] /= 0 /\ ~stop
              /\ wpc'[j] /= "broke"
              /\ stop => (running'[j] = <<>> \/ running'[j] = running[j])
              /\ stop' => running'[j] = <<>>
      ]_vars

\* stop is set and a worker of a pool of two that ran FINALIZE of a node has
\* returned while the other one still waits for work
C27_Witness ==
    /\ stop
    /\ PoolWorkers = {1, 2}
    /\ wpc[1] = "ret"
    /\ wpc[2] \in {"wait", "wait_stop"}
    /\ \E i \in DOMAIN nodes : ncalls[1][i]["FINALIZE"] = 1

\* C26: under fair scheduling every caller that is in the g_state_barrier
\* entry loop of ggml_init or ggml_free eventually gets past it.
C26_EntryTerminates ==
    \A t \in Callers :
        (cpc[t] \in {"enter", "backoff"}) ~> (cpc[t] \in InCritical)

\* under fair scheduling every call that is past the entry loop returns
CriticalSectionEnds ==
    \A t \in Callers : (cpc[t] \in InCritical) ~> (cpc[t] = "idle")

\* the accumulator region of thread ith: ne elements starting at element
\* (ne + CACHE_LINE_SIZE_F32) * ith
AccumulatorRegion(in, ith) ==
    LET first == (DstNe(in) + CACHE_LINE_SIZE_F32) * ith
    IN  first .. (first + DstNe(in) - 1)

\* the float elements that lie inside a buffer of wsize bytes
FloatsInside(wsize) == {e \in 0 .. wsize : SizeofFloat * (e + 1) <= wsize}

\* the statement of C23 for the node of a run
WorkPartitioned ==
    /\ wb_res /= "none" => (ColumnParallel(wb_in) <=>
                               wb_cur = (SizeofFloat * DstNe(wb_in)) * wb_in.nth)
    /\ ColumnParallel(wb_in) =>
           /\ \A t \in DOMAIN wb_wr :
                  /\ wb_wr[t] \subseteq AccumulatorRegion(wb_in, t)
                  /\ wb_wr[t] \subseteq FloatsInside(wb_wsize)
           /\ \A t \in DOMAIN wb_wr : \A u \in DOMAIN wb_wr :
                  t /= u => wb_wr[t] \cap wb_wr[u] = {}

\* C23: for a column-parallel MUL_MAT node thread ith writes only its
\* accumulator region, the regions of different threads are disjoint, every
\* written element lies inside the work buffer of the run, and the sizing
\* branch takes the accumulator size exactly when the kernel takes the
\* column-parallel path.
C23_WorkPartition ==
    (mode = "work" /\ wb_in.op = "MUL_MAT") => WorkPartitioned

\* the same statement for the runs whose work size fits the int
\* parameter of ggml_new_tensor_1d
WorkPartitionInRange ==
    (mode = "work" /\ wb_in.op = "MUL_MAT"
        /\ WorkNe0(wb_in) = WorkSize(wb_in)) => WorkPartitioned

\* a run of three threads on a column-parallel node whose work size fits:
\* the last thread wrote the last element of the buffer
WorkPartitionReached ==
    /\ mode = "work"
    /\ wb_in.op = "MUL_MAT"
    /\ wb_in.nth = 3
    /\ WorkNe0(wb_in) = WorkSize(wb_in)
    /\ \A t \in 0 .. 2 : wb_wr[t] /= {}
    /\ \E e \in wb_wr[2] : SizeofFloat * (e + 1) = wb_wsize

\* the ggml_fp16_t elements that lie inside cur bytes
HalfsInside(cur) == {e \in 0 .. cur : SizeofHalf * (e + 1) <= cur}

\* C28: every work-buffer element that a CONV_1D kernel writes in INIT or
\* reads in COMPUTE has an index below the work size computed for the node.
C28_ConvInsideWorkSize ==
    (mode = "work" /\ wb_in.op \in {"CONV_1D_1S", "CONV_1D_2S"}) =>
        \A t \in DOMAIN wb_wr :
            /\ wb_wr[t] \subseteq HalfsInside(wb_cur)
            /\ wb_rd[t] \subseteq HalfsInside(wb_cur)

\* the same statement for the nodes whose channel count is a multiple of 32
ConvInsideWhenPadded ==
    (mode = "work" /\ wb_in.op \in {"CONV_1D_1S", "CONV_1D_2S"}
        /\ ggml_up32(wb_in.ne01) = wb_in.ne01) =>
        \A t \in DOMAIN wb_wr :
            /\ wb_wr[t] \subseteq HalfsInside(wb_cur)
            /\ wb_rd[t] \subseteq HalfsInside(wb_cur)

\* a CONV_1D node of 32 channels ran INIT and COMPUTE on two threads and
\* read the last element of its work size
ConvInsideReached ==
    /\ mode = "work"
    /\ wb_in.op = "CONV_1D_1S"
    /\ wb_in.ne01 = 32
    /\ wb_in.nth = 2
    /\ wb_rd[0] /= {} /\ wb_rd[1] /= {}
    /\ \E e \in wb_rd[1] : SizeofHalf * (e + 1) = wb_cur

\* the last call was ggml_mul_inplace or ggml_div_inplace on two tensors of
\* the same shape, one of which has a grad
InplaceOnDifferentiable ==
    /\ mode = "ad"
    /\ ad_call.name \in {"ggml_mul_inplace", "ggml_div_inplace"}
    /\ ggml_are_same_shape(ad_t[ad_call.args[1]], ad_t[ad_call.args[2]])
    /\ \/ ad_t[ad_call.args[1]].grad /= 0
       \/ ad_t[ad_call.args[2]].grad /= 0

\* C24 as stated: ggml_mul_inplace and ggml_div_inplace reject an operand
\* that has a grad: the call fails the assertion is_node == false and
\* creates no tensor.
C24_InplaceRejectsGrad ==
    InplaceOnDifferentiable =>
        /\ ad_call.res = "abort"
        /\ Len(ad_t) = ad_call.n_before

\* C24: ggml_mul_inplace and ggml_div_inplace on operands of one shape
\* return in every build, whether or not an operand has a grad: the
\* assertion is_node == false cannot fail, and the result is a MUL or DIV
\* tensor on the two operands that has no grad.
C24_InplaceIsNeverANode ==
    /\ mode = "ad"
    /\ ad_call.name \in {"ggml_mul_inplace", "ggml_div_inplace"}
    /\ ggml_are_same_shape(ad_t[ad_call.args[1]], ad_t[ad_call.args[2]])
    => /\ ad_call.res = "ok"
       /\ Len(ad_t) = ad_call.n_before + 1
       /\ ad_call.ret = Len(ad_t)
       /\ ad_t[ad_call.ret].op \in {"MUL", "DIV"}
       /\ ad_t[ad_call.ret].src0 = ad_call.args[1]
       /\ ad_t[ad_call.ret].src1 = ad_call.args[2]
       /\ ad_t[ad_call.ret].grad = 0

\* an in-place product or quotient of a tensor that has a grad was created
\* in a build with assertions
C24_Witness ==
    /\ InplaceOnDifferentiable
    /\ ~ad_call.ndebug
    /\ ad_call.res = "ok"

\* the codes linesearch_backtracking returns for a failure
LinesearchCodes ==
    {ggml_opt_result.GGML_LINESEARCH_INVALID_PARAMETERS,
     ggml_opt_result.GGML_LINESEARCH_FAIL,
     ggml_opt_result.GGML_LINESEARCH_MINIMUM_STEP,
     ggml_opt_result.GGML_LINESEARCH_MAXIMUM_STEP,
     ggml_opt_result.GGML_LINESEARCH_MAXIMUM_ITERATIONS}

\* linesearch_backtracking has returned to ggml_opt_lbfgs
LinesearchReturned ==
    mode = "ls" /\ ls_st.pc \in {"returned", "failed", "accepted"}

\* the graph was evaluated at most max(1, max_linesearch) times; a returned
\* value is the positive number of evaluations or a negative code; and
\* ggml_opt_lbfgs returns the value as a failure exactly if it is negative
LinesearchBounded ==
    mode = "ls" /\ ls_st.pc /= "start" =>
        /\ ls_st.evals <= MAX(1, ls_in.max_linesearch)
        /\ LinesearchReturned =>
               \/ ls_st.ls > 0 /\ ls_st.ls = ls_st.evals
               \/ ls_st.ls < 0 /\ ls_st.ls \in LinesearchCodes
        /\ ls_st.pc = "failed" => ls_st.ls < 0
        /\ ls_st.pc = "accepted" => ls_st.ls > 0

\* C29: linesearch_backtracking always terminates, whatever values the
\* function and its gradient take: it returns after at most
\* max(1, max_linesearch) evaluations of the graph with the positive number
\* of evaluations or one of the negative line-search codes, and
\* ggml_opt_lbfgs treats exactly the negative values as a failure.
C29_LinesearchTerminates ==
    /\ []LinesearchBounded
    /\ <>(mode = "ls" /\ ls_st.pc \in {"failed", "accepted"})

\* a line search that used all its max_linesearch >= 2 evaluations and was
\* reported as failed
C29_Witness ==
    /\ mode = "ls"
    /\ ls_st.pc = "failed"
    /\ ls_in.max_linesearch >= 2
    /\ ls_st.evals = ls_in.max_linesearch
    /\ ls_st.ls = ggml_opt_result.GGML_LINESEARCH_MAXIMUM_ITERATIONS

\* C25: when the line search fails, ggml_opt_lbfgs returns with the
\* parameter tensor holding the value it had before the line search
\* started.
C25_ParamsRestoredOnFailure ==
    mode = "ls" /\ ls_st.pc = "failed" => QEq(ls_st.ps, ls_in.xp)

\* what is restored on failure: the arrays x and g of ggml_opt_lbfgs; the
\* parameter tensor keeps the last point the line search evaluated
LocalsRestoredOnFailure ==
    mode = "ls" /\ ls_st.pc = "failed" =>
        /\ QEq(ls_st.x, ls_in.xp)
        /\ QEq(ls_st.g, ls_in.gp)
        /\ ls_st.evals = 0 => QEq(ls_st.ps, ls_in.xp)
        /\ ls_st.evals > 0 =>
               QEq(ls_st.ps, QAdd(ls_in.xp, QMul(ls_st.step, ls_in.d)))

\* the derivative of the op at x times the upstream gradient gr
ChainRuleTerm(op, x, gr) ==
    CASE op = "SQR" -> QMul(QMul(Q(2, 1), x), gr)
      [] op = "SQRT" -> QDiv(QMul(gr, Q(1, 2)), ExactSqrt(x))
      [] op = "ABS" -> QMul(VecUnary("SGN", x), gr)
      [] op = "NEG" -> QNeg(gr)
      [] op = "RELU" -> QMul(VecUnary("STEP", x), gr)

\* the backward graph of a node with the op was computed, and its source
\* has a grad
BackwardComputed(ops) ==
    /\ mode = "bw"
    /\ bw_out.pc = "computed"
    /\ bw_in.has_grad
    /\ bw_in.op \in ops

\* C30: for SQR, SQRT, ABS, NEG and RELU the term that
\* ggml_compute_backward accumulates into src0.grad is the derivative of
\* the op at src0 times tensor.grad: 2*src0*grad, grad*0.5/sqrt(src0),
\* sgn(src0)*grad, -grad and step(src0)*grad.
C30_ChainRuleTerms ==
    BackwardComputed({"SQR", "SQRT", "ABS", "NEG", "RELU"}) =>
        QEq(QSub(bw_out.value, bw_in.g0),
            ChainRuleTerm(bw_in.op, bw_in.x, bw_in.gr))

\* what holds: the rules of SQR, ABS and NEG are the chain rule; the rule of
\* SQRT adds 0.5/sqrt(src0) whatever tensor.grad is, and the rule of RELU
\* subtracts step(src0)*grad
BackwardTerms ==
    /\ BackwardComputed({"SQR", "ABS", "NEG"}) =>
           QEq(QSub(bw_out.value, bw_in.g0),
               ChainRuleTerm(bw_in.op, bw_in.x, bw_in.gr))
    /\ BackwardComputed({"SQRT"}) =>
           QEq(QSub(bw_out.value, bw_in.g0),
               QDiv(Q(1, 2), ExactSqrt(bw_in.x)))
    /\ BackwardComputed({"RELU"}) =>
           QEq(QSub(bw_out.value, bw_in.g0),
               QNeg(ChainRuleTerm(bw_in.op, bw_in.x, bw_in.gr)))
    /\ BackwardComputed({"SGN", "STEP"}) => QEq(bw_out.value, bw_in.g0)

====
